---------------------------- MODULE Spec2Model ----------------------------
(***************************************************************************)
(* A model of netdial (src/netdial.c, the current implementation starting  *)
(* at line 337 of the file): the address parser, the socket factory, the   *)
(* flag translator, the accept gate, the address formatter and the hangup  *)
(* controller, over an abstract kernel (descriptor table, filesystem       *)
(* namespace of Unix-domain socket paths, errno).                          *)
(*                                                                         *)
(* C strings are sequences of one-character strings; the terminating NUL   *)
(* is what CharAt yields past the end.  Bit masks (int flags) are sets of  *)
(* bit positions: `a | b' is union, `a & b' intersection, and a mask is    *)
(* "true" in C exactly when it is not the empty set.                       *)
(***************************************************************************)
EXTENDS Integers, Sequences, FiniteSets, TLC

VARIABLES
    address,        \* the program's address argument (argv[1] of the test programs)
    flags,          \* the program's socket flags for netdial and netannounce
    parsed,         \* the struct netaddr of the call that has just returned (else NoResult)
    fds,            \* the kernel's descriptor table: open descriptor -> socket
    fs,             \* the filesystem entries of bound Unix-domain sockets
    errno,          \* the calling thread's errno
    ret,            \* the last library call: operation, arguments, result, system calls
    have_accept4,   \* the build's HAVE_ACCEPT4
    heap,           \* the echo server's chunks: address -> struct chunk, live or freed
    conn,           \* the echo server's struct conn and what has become of it
    rd,             \* the number of bytes the echo server has read from its peer
    wr              \* the bytes the echo server has written to its peer

vars == <<address, flags, parsed, fds, fs, errno, ret, have_accept4, heap, conn, rd, wr>>


---------------------------------------------------------------------------
(* Bounds of the model.                                                    *)

\* Longest text after the first ':' of the enumerated parser inputs.
MaxTail == 4
\* Longest bracketed literal of the enumerated parser inputs.
MaxLit == 3
\* Most connections (dialed or accepted sockets) the program holds at once.
MaxConn == 1
\* Most candidates the resolver returns for one query.
MaxCand == 2

---------------------------------------------------------------------------
(* Platform constants.                                                     *)

\* <netdb.h>: sizes of the node and service fields of struct netaddr.
NI_MAXHOST == 1025
NI_MAXSERV == 32
\* <sys/un.h>: sizeof(((struct sockaddr_un*) 0)->sun_path)
SUN_PATH_SIZE == 108

AF_UNSPEC == "AF_UNSPEC"
AF_INET   == "AF_INET"
AF_INET6  == "AF_INET6"
AF_UNIX   == "AF_UNIX"

SOCK_STREAM    == "SOCK_STREAM"
SOCK_DGRAM     == "SOCK_DGRAM"
SOCK_SEQPACKET == "SOCK_SEQPACKET"
\* The socktype of a zero-initialised struct netaddr.
SOCK_ZERO      == "0"

---------------------------------------------------------------------------
(* C strings.                                                              *)

NUL == ""

Str1(c, n) == [i \in 1..n |-> c]

CharAt(s, i) == IF i >= 1 /\ i <= Len(s) THEN s[i] ELSE NUL

UpperCase == <<"A","B","C","D","E","F","G","H","I","J","K","L","M",
               "N","O","P","Q","R","S","T","U","V","W","X","Y","Z">>
LowerCase == <<"a","b","c","d","e","f","g","h","i","j","k","l","m",
               "n","o","p","q","r","s","t","u","v","w","x","y","z">>

tolower(c) ==
    IF \E i \in 1..26 : UpperCase[i] = c
    THEN LowerCase[CHOOSE i \in 1..26 : UpperCase[i] = c]
    ELSE c

\* strchr(s + from - 1, c): the position of the first c at or after position
\* from, 0 for NULL.
strchr(s, from, c) ==
    IF \E i \in from..Len(s) : s[i] = c
    THEN CHOOSE i \in from..Len(s) :
            s[i] = c /\ \A j \in from..(i - 1) : s[j] # c
    ELSE 0

\* A strlen that also stops at a ':'.
strlen_tocolon(s, from) ==
    IF from > Len(s) THEN 0
    ELSE IF strchr(s, from, ":") # 0 THEN strchr(s, from, ":") - from
    ELSE Len(s) - from + 1

\* strlen(s + from - 1)
strlen(s, from) == IF from > Len(s) THEN 0 ELSE Len(s) - from + 1

\* strncasecmp(s1, s2, n): 0 when the first n characters agree ignoring case
\* (the comparison ends early at a NUL both strings share), non-zero otherwise.
strncasecmp(s1, s2, n) ==
    IF \E i \in 1..n :
          /\ tolower(CharAt(s1, i)) # tolower(CharAt(s2, i))
          /\ \A j \in 1..(i - 1) : CharAt(s1, j) # NUL
    THEN 1
    ELSE 0

---------------------------------------------------------------------------
(* The Type Table and the address parser.                                  *)

nettypes == <<
    [name |-> <<"t","c","p">>,         family |-> AF_UNSPEC, socktype |-> SOCK_STREAM],
    [name |-> <<"u","d","p">>,         family |-> AF_UNSPEC, socktype |-> SOCK_DGRAM],
    [name |-> <<"t","c","p","4">>,     family |-> AF_INET,   socktype |-> SOCK_STREAM],
    [name |-> <<"u","d","p","4">>,     family |-> AF_INET,   socktype |-> SOCK_DGRAM],
    [name |-> <<"t","c","p","6">>,     family |-> AF_INET6,  socktype |-> SOCK_STREAM],
    [name |-> <<"u","d","p","6">>,     family |-> AF_INET6,  socktype |-> SOCK_DGRAM],
    [name |-> <<"u","n","i","x">>,     family |-> AF_UNIX,   socktype |-> SOCK_STREAM],
    [name |-> <<"u","n","i","x","p">>, family |-> AF_UNIX,   socktype |-> SOCK_SEQPACKET]
>>

\* getnettype(name, namelen, &family, &socktype): the first table entry whose
\* name agrees with the first namelen characters of name.
getnettype(name, namelen) ==
    LET hit(i) == strncasecmp(name, nettypes[i].name, namelen) = 0
    IN  IF namelen = 0 \/ ~ \E i \in 1..Len(nettypes) : hit(i)
        THEN [found |-> FALSE, family |-> AF_UNSPEC, socktype |-> SOCK_ZERO]
        ELSE LET i == CHOOSE k \in 1..Len(nettypes) :
                          hit(k) /\ \A j \in 1..(k - 1) : ~hit(j)
             IN  [found |-> TRUE, family |-> nettypes[i].family,
                  socktype |-> nettypes[i].socktype]

\* getnetname(family, socktype): the first table entry with that pair, NoName
\* for NULL.
NoName == <<"(null)">>

getnetname(family, socktype) ==
    LET hit(i) == nettypes[i].family = family /\ nettypes[i].socktype = socktype
    IN  IF \E i \in 1..Len(nettypes) : hit(i)
        THEN nettypes[CHOOSE k \in 1..Len(nettypes) :
                          hit(k) /\ \A j \in 1..(k - 1) : ~hit(j)].name
        ELSE NoName

\* The family of a bracketed literal, reconciled with the type's family
\* (netaddrparse, lines 512-515).
BracketFamilyAny(family) == [ok |-> TRUE, family |-> family]

BracketFamily(family) ==
    IF family = AF_UNSPEC THEN [ok |-> TRUE, family |-> AF_INET6]
    ELSE IF family # AF_INET6 THEN [ok |-> FALSE, family |-> family]
    ELSE [ok |-> TRUE, family |-> family]

\* What netaddrparse returns when no ':' follows the node (lines 527-529).
NoServiceAlways(family) == TRUE

NoService(family) == family = AF_UNIX

\* struct netaddr, plus the function's boolean result in ok.
ZeroNetaddr ==
    [ok |-> FALSE, family |-> AF_UNSPEC, socktype |-> SOCK_ZERO,
     address |-> <<>>, service |-> <<>>, addrlen |-> 0, servlen |-> 0]

\* netaddrparse without the two length checks (lines 520-521 and 533-534).
netaddrparse_unbounded(str) ==
    LET colon1 == strchr(str, 1, ":")
        nt     == getnettype(str, colon1 - 1)
        na1    == [ZeroNetaddr EXCEPT !.family = nt.family, !.socktype = nt.socktype]
        node0  == colon1 + 1
        brack  == CharAt(str, node0) = "["
        node   == IF brack THEN node0 + 1 ELSE node0
        endbracket == strchr(str, node, "]")
        bf     == BracketFamily(na1.family)
        colon  == IF brack THEN endbracket + 1 ELSE strchr(str, node, ":")
        nodelen == IF brack THEN endbracket - node
                   ELSE IF colon # 0 THEN colon - node ELSE strlen(str, node)
        na2    == IF brack THEN [na1 EXCEPT !.family = bf.family] ELSE na1
        na3    == [na2 EXCEPT !.address = SubSeq(str, node, node + nodelen - 1),
                              !.addrlen = nodelen]
        service == colon + 1
        servicelen == strlen(str, service)
        na4    == [na3 EXCEPT !.service = SubSeq(str, service, service + servicelen - 1),
                              !.servlen = servicelen]
    IN  IF colon1 = 0 THEN ZeroNetaddr
        ELSE IF ~nt.found THEN ZeroNetaddr
        ELSE IF brack /\ endbracket = 0 THEN na1
        ELSE IF brack /\ CharAt(str, endbracket + 1) # ":" THEN na1
        ELSE IF brack /\ ~bf.ok THEN na1
        ELSE IF colon = 0 THEN [na3 EXCEPT !.ok = NoService(na3.family)]
        ELSE [na4 EXCEPT !.ok = TRUE]

\* netaddrparse (lines 487-541)
netaddrparse(str) ==
    LET colon1 == strchr(str, 1, ":")
        nt     == getnettype(str, colon1 - 1)
        na1    == [ZeroNetaddr EXCEPT !.family = nt.family, !.socktype = nt.socktype]
        node0  == colon1 + 1
        brack  == CharAt(str, node0) = "["
        node   == IF brack THEN node0 + 1 ELSE node0
        endbracket == strchr(str, node, "]")
        bf     == BracketFamily(na1.family)
        colon  == IF brack THEN endbracket + 1 ELSE strchr(str, node, ":")
        nodelen == IF brack THEN endbracket - node
                   ELSE IF colon # 0 THEN colon - node ELSE strlen(str, node)
        na2    == IF brack THEN [na1 EXCEPT !.family = bf.family] ELSE na1
        na3    == [na2 EXCEPT !.address = SubSeq(str, node, node + nodelen - 1),
                              !.addrlen = nodelen]
        service == colon + 1
        servicelen == strlen(str, service)
        na4    == [na3 EXCEPT !.service = SubSeq(str, service, service + servicelen - 1),
                              !.servlen = servicelen]
    IN  IF colon1 = 0 THEN ZeroNetaddr
        ELSE IF ~nt.found THEN ZeroNetaddr
        ELSE IF brack /\ endbracket = 0 THEN na1
        ELSE IF brack /\ CharAt(str, endbracket + 1) # ":" THEN na1
        ELSE IF brack /\ ~bf.ok THEN na1
        ELSE IF nodelen > NI_MAXHOST THEN na2
        ELSE IF colon = 0 THEN [na3 EXCEPT !.ok = NoService(na3.family)]
        ELSE IF servicelen > NI_MAXSERV THEN na3
        ELSE [na4 EXCEPT !.ok = TRUE]

---------------------------------------------------------------------------
(* Inputs of the parser.                                                   *)

NoResult == [ok |-> FALSE, family |-> "none", socktype |-> "none",
             address |-> <<>>, service |-> <<>>, addrlen |-> 0, servlen |-> 0]

\* Type tokens: the table's names, all their prefixes (the empty one too), a
\* mixed-case spelling of each name, names with a character appended, and an
\* unrelated word.
Prefixes(s) == { SubSeq(s, 1, n) : n \in 0..Len(s) }

Capitalised(s) == [i \in 1..Len(s) |->
                      IF i = 1 /\ \E k \in 1..26 : LowerCase[k] = s[i]
                      THEN UpperCase[CHOOSE k \in 1..26 : LowerCase[k] = s[i]]
                      ELSE s[i]]

TableNames == { nettypes[i].name : i \in 1..Len(nettypes) }

TypeTokens ==
    UNION { Prefixes(n) : n \in TableNames }
        \cup { Capitalised(n) : n \in TableNames }
        \cup { n \o <<"x">> : n \in TableNames }
        \cup { <<"f","o","o">>, <<"x","t","c","p">> }

TailChars == {"a", ":", "[", "]"}

TailsOfLen(n) == [1..n -> TailChars]

Tails == UNION { TailsOfLen(n) : n \in 0..MaxTail }

\* Bracketed nodes: a literal of up to MaxLit characters, then what follows ']'.
LitChars == {"a", ":", "%", "["}

Literals == UNION { [1..n -> LitChars] : n \in 0..MaxLit }

AfterBracket == { <<>>, <<":">>, <<":", "a">>, <<"a">>, <<"]", ":", "a">>, <<":", "a", ":">> }

BracketTails == { <<"[">> \o l \o <<"]">> \o r : l \in Literals, r \in AfterBracket }

\* Addresses around the bounds of the node and service fields.
LongTails ==
    { Str1("a", NI_MAXHOST) \o <<":", "a">>,
      Str1("a", NI_MAXHOST + 1) \o <<":", "a">>,
      Str1("a", NI_MAXHOST),
      Str1("a", NI_MAXHOST + 1),
      <<"[">> \o Str1("a", NI_MAXHOST) \o <<"]", ":", "a">>,
      <<"[">> \o Str1("a", NI_MAXHOST + 1) \o <<"]", ":", "a">>,
      <<"a", ":">> \o Str1("a", NI_MAXSERV),
      <<"a", ":">> \o Str1("a", NI_MAXSERV + 1) }

ParseInputs ==
    { t \o <<":">> \o r : t \in TypeTokens, r \in Tails }
        \cup { t \o <<":">> \o r : t \in TableNames, r \in LongTails \cup BracketTails }
        \cup TypeTokens
        \cup { t \o <<"a">> : t \in TableNames }

---------------------------------------------------------------------------
(* The parser applied to one input.                                        *)

NoCall == [op |-> "none", fd |-> -1, arg |-> {}, rv |-> 0, log |-> <<>>,
           remoteaddr |-> <<>>, slot |-> FALSE,
           target |-> [family |-> "AF_UNSPEC", socktype |-> "0", nonblock |-> FALSE,
                       cloexec |-> FALSE, opts |-> {}, listening |-> FALSE,
                       name |-> [family |-> "AF_UNSPEC", node |-> <<>>, port |-> <<>>],
                       peer |-> [family |-> "AF_UNSPEC", node |-> <<>>, port |-> <<>>]]]

\* No echo server: the library's state alone.
NoConn == [chunks |-> [head |-> 0, tail |-> 0], nbytes |-> 0, wev |-> FALSE, state |-> "none"]

NoEcho ==
    /\ heap = <<>>
    /\ conn = NoConn
    /\ rd = 0
    /\ wr = <<>>

InitWorld ==
    /\ fds = << >>
    /\ fs = {}
    /\ errno = "0"
    /\ ret = NoCall
    /\ NoEcho

InitParse ==
    /\ address \in ParseInputs
    /\ flags = {}
    /\ parsed = NoResult
    /\ have_accept4 = TRUE
    /\ InitWorld

Parse ==
    /\ parsed = NoResult
    /\ parsed' = netaddrparse(address)
    /\ UNCHANGED <<address, flags, fds, fs, errno, ret, have_accept4, heap, conn, rd, wr>>

NextParse == Parse

SpecParse == InitParse /\ [][NextParse]_vars

---------------------------------------------------------------------------
(* The parser's contract, stated on the input text alone.                  *)

Range(s) == { s[i] : i \in 1..Len(s) }

HasColon(a) == ":" \in Range(a)

FirstColon(a) == CHOOSE i \in 1..Len(a) : a[i] = ":" /\ \A j \in 1..(i - 1) : a[j] # ":"

\* The text before the first ':'.
TypeToken(a) == SubSeq(a, 1, FirstColon(a) - 1)

\* The text after the first ':'.
AfterType(a) == SubSeq(a, FirstColon(a) + 1, Len(a))

SameIgnoringCase(s, t) ==
    Len(s) = Len(t) /\ \A i \in 1..Len(s) : tolower(s[i]) = tolower(t[i])

IsTableToken(tok) == \E i \in 1..Len(nettypes) : SameIgnoringCase(tok, nettypes[i].name)

TableFamily(tok) ==
    nettypes[CHOOSE i \in 1..Len(nettypes) : SameIgnoringCase(tok, nettypes[i].name)].family

IPFamilies == {AF_UNSPEC, AF_INET, AF_INET6}

Bracketed(a) == HasColon(a) /\ CharAt(AfterType(a), 1) = "["

\* A bracketed remainder "[" lit "]" ":" svc, lit without ']'.
WellBracketed(r) ==
    \E e \in 2..Len(r) :
        /\ r[e] = "]"
        /\ \A j \in 2..(e - 1) : r[j] # "]"
        /\ CharAt(r, e + 1) = ":"

BracketLiteral(r) ==
    SubSeq(r, 2, (CHOOSE e \in 2..Len(r) : r[e] = "]" /\ \A j \in 2..(e - 1) : r[j] # "]") - 1)

BracketService(r) ==
    SubSeq(r, (CHOOSE e \in 2..Len(r) : r[e] = "]" /\ \A j \in 2..(e - 1) : r[j] # "]") + 2, Len(r))

\* C1: netaddrparse accepts an address only if it has a ':' and the text
\* before the first ':' is, over its whole length and ignoring case, one of
\* the eight type tokens; every other token is a parse failure.
C1_OnlyTableTokens ==
    parsed.ok => HasColon(address) /\ IsTableToken(TypeToken(address))

\* C2: an address whose type token is unix or unixp parses successfully only
\* if it has no service field: the parsed service is empty and the input has
\* no ':' after the node.
C2_UnixHasNoService ==
    ( /\ parsed.ok
      /\ IsTableToken(TypeToken(address))
      /\ TableFamily(TypeToken(address)) = AF_UNIX )
        => /\ parsed.family = AF_UNIX
           /\ parsed.service = <<>>
           /\ ~HasColon(AfterType(address))

\* C3: for a bracketed node under one of the eight type tokens, the parser
\* fails for tcp4, udp4, unix and unixp; for tcp, udp, tcp6 and udp6 it
\* succeeds whenever the literal is closed, followed by ':' and within the
\* field bounds, and every success has family IPv6 and as node the text
\* between the brackets, '%zone' included, unchanged.
C3_BracketedLiteral ==
    (parsed # NoResult /\ Bracketed(address) /\ IsTableToken(TypeToken(address)))
        => LET r == AfterType(address)
               f == TableFamily(TypeToken(address))
           IN  /\ f \in {AF_INET, AF_UNIX} => ~parsed.ok
               /\ parsed.ok =>
                    /\ f \in {AF_UNSPEC, AF_INET6}
                    /\ parsed.family = AF_INET6
                    /\ WellBracketed(r)
                    /\ parsed.address = BracketLiteral(r)
                    /\ parsed.addrlen = Len(BracketLiteral(r))
               /\ ( /\ f \in {AF_UNSPEC, AF_INET6}
                    /\ WellBracketed(r)
                    /\ Len(BracketLiteral(r)) <= NI_MAXHOST
                    /\ Len(BracketService(r)) <= NI_MAXSERV ) => parsed.ok

\* A bracketed literal with a zone suffix was parsed under an unversioned type.
C3_Witness ==
    /\ parsed.ok
    /\ Bracketed(address)
    /\ IsTableToken(TypeToken(address))
    /\ TableFamily(TypeToken(address)) = AF_UNSPEC
    /\ parsed.family = AF_INET6
    /\ "%" \in Range(parsed.address)
    /\ ":" \in Range(parsed.address)

\* C4: an address of an IP family parses successfully only if a ':' follows
\* the node: after a plain node a further ':' exists, and after a bracketed
\* literal the character right after ']' is ':'.
C4_IPNeedsServiceSeparator ==
    (parsed.ok /\ parsed.family \in IPFamilies)
        => IF Bracketed(address)
           THEN WellBracketed(AfterType(address))
           ELSE HasColon(AfterType(address))

\* An IP address without a service separator was parsed, and refused.
C4_Witness ==
    /\ parsed # NoResult
    /\ ~parsed.ok
    /\ HasColon(address)
    /\ IsTableToken(TypeToken(address))
    /\ TableFamily(TypeToken(address)) \in IPFamilies
    /\ ~Bracketed(address)
    /\ Len(AfterType(address)) > 0
    /\ ~HasColon(AfterType(address))

\* C5: a successfully parsed address has an empty node only when its family
\* is an IP family: under the type tokens unix and unixp an empty node is not
\* accepted.
C5_EmptyNodeOnlyForIP ==
    ( /\ parsed.ok
      /\ IsTableToken(TypeToken(address))
      /\ parsed.addrlen = 0 )
        => parsed.family \in IPFamilies

\* The node and the service of the text after the type token: the literal
\* between '[' and the first ']' and what follows "]:", or the text up to
\* the next ':' and what follows it.
NodeText(r) ==
    IF CharAt(r, 1) = "[" THEN (IF "]" \in Range(r) THEN BracketLiteral(r) ELSE <<>>)
    ELSE IF HasColon(r) THEN TypeToken(r) ELSE r

ServiceText(r) ==
    IF CharAt(r, 1) = "[" THEN (IF "]" \in Range(r) THEN BracketService(r) ELSE <<>>)
    ELSE IF HasColon(r) THEN AfterType(r) ELSE <<>>

\* C29: whatever netaddrparse wrote to a struct netaddr, the node is at most
\* NI_MAXHOST characters and the service at most NI_MAXSERV, each with its
\* length in addrlen and servlen, so that the characters and their
\* terminator fit the fields of NI_MAXHOST + 1 and NI_MAXSERV + 1 bytes; and
\* an address whose node or service is longer does not parse.
C29_FieldsWithinBounds ==
    parsed # NoResult =>
        /\ parsed.addrlen <= NI_MAXHOST
        /\ Len(parsed.address) = parsed.addrlen
        /\ parsed.servlen <= NI_MAXSERV
        /\ Len(parsed.service) = parsed.servlen
        /\ ( /\ HasColon(address)
             /\ \/ Len(NodeText(AfterType(address))) > NI_MAXHOST
                \/ Len(ServiceText(AfterType(address))) > NI_MAXSERV )
                => ~parsed.ok

\* An address with a node of exactly NI_MAXHOST characters was parsed.
C29_Witness ==
    /\ parsed.ok
    /\ parsed.addrlen = NI_MAXHOST
    /\ Len(NodeText(AfterType(address))) = NI_MAXHOST

\* The text after the type token has a node followed by a service separator.
HasServiceField(r) ==
    IF CharAt(r, 1) = "[" THEN WellBracketed(r) ELSE HasColon(r)

\* C30: in an address that parses and has a ':' after its node, the service
\* is all the text after that ':' up to the end of the address, unchanged:
\* further ':' characters belong to the service.
C30_ServiceVerbatim ==
    (parsed.ok /\ HasServiceField(AfterType(address))) =>
        /\ parsed.service = ServiceText(AfterType(address))
        /\ parsed.servlen = Len(ServiceText(AfterType(address)))
        /\ parsed.address = NodeText(AfterType(address))

\* An address with a node and a service holding a ':' was parsed.
C30_Witness ==
    /\ parsed.ok
    /\ IsTableToken(TypeToken(address))
    /\ parsed.addrlen > 0
    /\ HasServiceField(AfterType(address))
    /\ ":" \in Range(parsed.service)
    /\ "a" \in Range(parsed.service)

---------------------------------------------------------------------------
(* Flag bits (netdial.h) and the option table.                             *)

Bits == 0..31

NDdefault   == {}
NDblocking  == {1}
NDexeckeep  == {2}
NDpasscred  == {9}
NDpassec    == {10}
NDbroadcast == {17}
NDdebug     == {18}
NDkeepalive == {19}
NDreuseaddr == {20}
NDreuseport == {21}

NDclose == {}
NDread  == {1}
NDwrite == {2}
NDrdwr  == NDread \cup NDwrite

NDsockflagmask == 0..7
NDunixoptmask  == 8..15
NDsockoptmask  == 16..31

\* <sys/socket.h>, <fcntl.h> (Linux values): SOCK_NONBLOCK = O_NONBLOCK =
\* 04000, SOCK_CLOEXEC = O_CLOEXEC = 02000000, FD_CLOEXEC = 1.
SOCK_NONBLOCK == {11}
SOCK_CLOEXEC  == {19}
O_NONBLOCK    == {11}
FD_CLOEXEC    == {0}

\* A socket option the build does not have (the #define ... 0 fallbacks).
SO_UNSUPPORTED == "0"

\* SO_PASSEC is not a name any <sys/socket.h> defines (Linux spells it
\* SO_PASSSEC), so the fallback definition to 0 at lines 412-414 is in effect.
optflags == <<
    [ndflag |-> NDpasscred,  sockopt |-> "SO_PASSCRED"],
    [ndflag |-> NDpassec,    sockopt |-> SO_UNSUPPORTED],
    [ndflag |-> NDbroadcast, sockopt |-> "SO_BROADCAST"],
    [ndflag |-> NDdebug,     sockopt |-> "SO_DEBUG"],
    [ndflag |-> NDkeepalive, sockopt |-> "SO_KEEPALIVE"],
    [ndflag |-> NDreuseaddr, sockopt |-> "SO_REUSEADDR"],
    [ndflag |-> NDreuseport, sockopt |-> "SO_REUSEPORT"]
>>

---------------------------------------------------------------------------
(* The kernel: descriptors, socket names, system calls.  A system call     *)
(* takes the world w = [fds, fs, errno, log] and yields [w, rv]; whether   *)
(* the platform lets it succeed is its last argument.                      *)

NoAddr == [family |-> AF_UNSPEC, node |-> <<>>, port |-> <<>>]

Sockaddr(family, node, port) == [family |-> family, node |-> node, port |-> port]

World(f, s, e) == [fds |-> f, fs |-> s, errno |-> e, log |-> <<>>]

Logged(w, call, fd, arg, ok) ==
    [w EXCEPT !.log = Append(@, [call |-> call, fd |-> fd, arg |-> arg, ok |-> ok])]

\* errno after a failed system call: the code the platform reports for it.
ESYS == "ESYS"

Failed(w, e) == [w |-> [w EXCEPT !.errno = ESYS], rv |-> -1]

LowestFree(w) ==
    CHOOSE n \in 0..Cardinality(DOMAIN w.fds) :
        n \notin DOMAIN w.fds /\ \A m \in 0..(n - 1) : m \in DOMAIN w.fds

NewSocket(family, socktype, typeflags) ==
    [family |-> family, socktype |-> socktype,
     nonblock |-> (typeflags \cap SOCK_NONBLOCK) # {},
     cloexec |-> (typeflags \cap SOCK_CLOEXEC) # {},
     opts |-> {}, listening |-> FALSE, name |-> NoAddr, peer |-> NoAddr]

\* socket(family, socktype | typeflags, 0)
sys_socket(w, family, socktype, typeflags, ok) ==
    IF ~ok
    THEN Failed(Logged(w, "socket", -1, <<family, socktype, typeflags>>, FALSE), "EMFILE")
    ELSE LET fd == LowestFree(w)
         IN  [w |-> [Logged(w, "socket", fd, <<family, socktype, typeflags>>, TRUE)
                        EXCEPT !.fds = (fd :> NewSocket(family, socktype, typeflags)) @@ @],
              rv |-> fd]

\* connect(fd, addr, len): a Unix-domain path must name a bound socket.
sys_connect(w, fd, addr, ok) ==
    IF ~ok \/ (addr.family = AF_UNIX /\ addr.node \notin w.fs)
    THEN Failed(Logged(w, "connect", fd, addr, FALSE), "ECONNREFUSED")
    ELSE [w |-> [Logged(w, "connect", fd, addr, TRUE) EXCEPT !.fds[fd].peer = addr],
          rv |-> 0]

\* bind(fd, addr, len): a Unix-domain path creates its filesystem entry and
\* must not exist yet; an empty sun_path is a name without a filesystem entry.
sys_bind(w, fd, addr, ok) ==
    IF ~ok \/ (addr.family = AF_UNIX /\ addr.node \in w.fs)
    THEN Failed(Logged(w, "bind", fd, addr, FALSE), "EADDRINUSE")
    ELSE [w |-> [Logged(w, "bind", fd, addr, TRUE)
                    EXCEPT !.fds[fd].name = addr,
                           !.fs = IF addr.family = AF_UNIX /\ addr.node # <<>>
                                  THEN @ \cup {addr.node} ELSE @],
          rv |-> 0]

sys_op(op, w, fd, addr, ok) ==
    IF op = "bind" THEN sys_bind(w, fd, addr, ok) ELSE sys_connect(w, fd, addr, ok)

\* close(fd): the descriptor is released even when close reports an error.
sys_close(w, fd, ok) ==
    LET w1 == [Logged(w, "close", fd, {}, ok)
                  EXCEPT !.fds = [d \in DOMAIN @ \ {fd} |-> @[d]]]
    IN  IF ok THEN [w |-> w1, rv |-> 0] ELSE Failed(w1, "EIO")

\* A setsockopt that flips the option instead of setting it.
sys_setsockopt_flip(w, fd, opt, ok) ==
    IF ~ok
    THEN Failed(Logged(w, "setsockopt", fd, opt, FALSE), "ENOPROTOOPT")
    ELSE [w |-> [Logged(w, "setsockopt", fd, opt, TRUE)
                    EXCEPT !.fds[fd].opts = (@ \ {opt}) \cup ({opt} \ @)],
          rv |-> 0]

\* setsockopt(fd, SOL_SOCKET, opt, &1, sizeof(int))
sys_setsockopt(w, fd, opt, ok) ==
    IF ~ok
    THEN Failed(Logged(w, "setsockopt", fd, opt, FALSE), "ENOPROTOOPT")
    ELSE [w |-> [Logged(w, "setsockopt", fd, opt, TRUE)
                    EXCEPT !.fds[fd].opts = @ \cup {opt}],
          rv |-> 0]

\* listen(fd, backlog): not supported by datagram sockets.
sys_listen(w, fd, backlog, ok) ==
    IF ~ok \/ w.fds[fd].socktype = SOCK_DGRAM
    THEN Failed(Logged(w, "listen", fd, backlog, FALSE), "EOPNOTSUPP")
    ELSE [w |-> [Logged(w, "listen", fd, backlog, TRUE) EXCEPT !.fds[fd].listening = TRUE],
          rv |-> 0]

\* shutdown(fd, how): it ends data transfer in a direction, which the model
\* does not carry; the descriptor and the socket's names stay as they are.
sys_shutdown(w, fd, how, ok) ==
    IF ~ok
    THEN Failed(Logged(w, "shutdown", fd, how, FALSE), "ENOTCONN")
    ELSE [w |-> Logged(w, "shutdown", fd, how, TRUE), rv |-> 0]

\* unlink(path)
sys_unlink(w, path, ok) ==
    IF ~ok \/ path \notin w.fs
    THEN Failed(Logged(w, "unlink", -1, path, FALSE), "ENOENT")
    ELSE [w |-> [Logged(w, "unlink", -1, path, TRUE) EXCEPT !.fs = @ \ {path}],
          rv |-> 0]

\* getsockopt(fd, SOL_SOCKET, SO_ACCEPTCONN, &listen, &len): rv is the call's
\* result, val what it stored.
sys_getsockopt_acceptconn(w, fd, ok) ==
    IF ~ok
    THEN [w |-> [Logged(w, "getsockopt", fd, "SO_ACCEPTCONN", FALSE) EXCEPT !.errno = ESYS],
          rv |-> -1, val |-> FALSE]
    ELSE [w |-> Logged(w, "getsockopt", fd, "SO_ACCEPTCONN", TRUE),
          rv |-> 0, val |-> w.fds[fd].listening]

\* getsockopt(fd, SOL_SOCKET, SO_TYPE, &socktype, &len)
sys_getsockopt_type(w, fd, ok) ==
    IF ~ok
    THEN [w |-> [Logged(w, "getsockopt", fd, "SO_TYPE", FALSE) EXCEPT !.errno = ESYS],
          rv |-> -1, val |-> SOCK_ZERO]
    ELSE [w |-> Logged(w, "getsockopt", fd, "SO_TYPE", TRUE),
          rv |-> 0, val |-> w.fds[fd].socktype]

\* The length the kernel reports for a socket name: a Unix-domain name is
\* offsetof(struct sockaddr_un, sun_path) + strlen(path) + 1 when bound to a
\* path, the offset alone when unnamed.
SUN_PATH_OFFSET == 2

SockaddrLen(addr) ==
    IF addr.family = AF_UNIX THEN SUN_PATH_OFFSET + Len(addr.node) + 1
    ELSE IF addr.family = AF_UNSPEC THEN SUN_PATH_OFFSET
    ELSE IF addr.family = AF_INET THEN 16
    ELSE 28

\* getsockname(fd, &ss, &len)
sys_getsockname(w, fd, ok) ==
    IF ~ok
    THEN [w |-> [Logged(w, "getsockname", fd, {}, FALSE) EXCEPT !.errno = ESYS],
          rv |-> -1, addr |-> NoAddr, len |-> 0]
    ELSE [w |-> Logged(w, "getsockname", fd, {}, TRUE),
          rv |-> 0, addr |-> w.fds[fd].name, len |-> SockaddrLen(w.fds[fd].name)]

\* The platform's accept: the next pending connection of a listening socket,
\* as a new descriptor with the given file status and descriptor flags.
sys_accept(w, call, fd, typeflags, peer, ok) ==
    IF ~ok \/ ~w.fds[fd].listening
    THEN [w |-> [Logged(w, call, fd, typeflags, FALSE) EXCEPT !.errno = ESYS],
          rv |-> -1, sa |-> NoAddr, salen |-> 0]
    ELSE LET nfd == LowestFree(w)
             sock == [NewSocket(w.fds[fd].family, w.fds[fd].socktype, typeflags)
                         EXCEPT !.name = w.fds[fd].name, !.peer = peer]
         IN  [w |-> [Logged(w, call, fd, typeflags, TRUE) EXCEPT !.fds = (nfd :> sock) @@ @],
              rv |-> nfd,
              sa |-> IF peer.family = AF_UNSPEC
                     THEN [peer EXCEPT !.family = w.fds[fd].family] ELSE peer,
              salen |-> SockaddrLen(peer)]

\* fcntl(fd, F_GETFD): the descriptor flags, of which there is FD_CLOEXEC.
sys_fcntl_getfd(w, fd, ok) ==
    IF ~ok
    THEN [w |-> [Logged(w, "fcntl", fd, "F_GETFD", FALSE) EXCEPT !.errno = ESYS],
          rv |-> -1, val |-> {}]
    ELSE [w |-> Logged(w, "fcntl", fd, "F_GETFD", TRUE),
          rv |-> 0, val |-> IF w.fds[fd].cloexec THEN FD_CLOEXEC ELSE {}]

\* fcntl(fd, F_SETFD, nf): only FD_CLOEXEC is a descriptor flag; other bits
\* of nf are ignored.
sys_fcntl_setfd(w, fd, nf, ok) ==
    IF ~ok
    THEN Failed(Logged(w, "fcntl", fd, "F_SETFD", FALSE), "EBADF")
    ELSE [w |-> [Logged(w, "fcntl", fd, "F_SETFD", TRUE)
                    EXCEPT !.fds[fd].cloexec = (nf \cap FD_CLOEXEC) # {}],
          rv |-> 0]

---------------------------------------------------------------------------
(* The library.  env is what the platform does during the call.            *)

\* applyflags (lines 543-562); failing is the option setsockopt refuses.
\* done[i] is the state after i entries of optflags: rv is FALSE once a
\* setsockopt has failed, which ends the loop.
applyflags(w, fd, fl, failing) ==
    LET done[i \in 0..Len(optflags)] ==
            IF i = 0 THEN [w |-> w, rv |-> TRUE]
            ELSE LET p == done[i - 1]
                     r == sys_setsockopt(p.w, fd, optflags[i].sockopt,
                                         optflags[i].sockopt # failing)
                 IN  IF ~p.rv THEN p
                     ELSE IF optflags[i].sockopt = SO_UNSUPPORTED THEN p
                     ELSE IF (fl \cap optflags[i].ndflag) = {} THEN p
                     ELSE IF r.rv # 0 THEN [w |-> r.w, rv |-> FALSE]
                     ELSE [w |-> r.w, rv |-> TRUE]
    IN  done[Len(optflags)]

\* unixsocket, lines 578-582: the flags or'ed into the socket type.
unixsocktype(fl) ==
    (IF (fl \cap NDexeckeep) = {} THEN SOCK_CLOEXEC ELSE {})
        \cup (IF (fl \cap NDblocking) = {} THEN SOCK_NONBLOCK ELSE {})

\* unixsocket (lines 564-594); op is "connect" or "bind".
unixsocket(w, na, fl, op, env) ==
    IF na.addrlen >= SUN_PATH_SIZE THEN [w |-> [w EXCEPT !.errno = "ERANGE"], rv |-> -1]
    ELSE LET name == Sockaddr(AF_UNIX, SubSeq(na.address, 1, na.addrlen), <<>>)
             s == sys_socket(w, AF_UNIX, na.socktype, unixsocktype(fl),
                             env.first # "sockfail")
             o == sys_op(op, s.w, s.rv, name, env.first = "ok")
         IN  IF s.rv < 0 THEN [w |-> s.w, rv |-> -1]
             ELSE IF o.rv = -1 THEN [w |-> sys_close(o.w, s.rv, TRUE).w, rv |-> -1]
             ELSE [w |-> o.w, rv |-> s.rv]

\* The address the resolver gives a candidate: the wildcard or the loopback
\* address for no node, otherwise the node's address.
ResolvedNode(na, family, passive) ==
    IF na.addrlen # 0 THEN na.address
    ELSE IF family = AF_INET
    THEN (IF passive THEN <<"0",".","0",".","0",".","0">>
                     ELSE <<"1","2","7",".","0",".","0",".","1">>)
    ELSE (IF passive THEN <<":",":">> ELSE <<":",":","1">>)

\* netaddrinfo asking for passive addresses whatever the role, and handing
\* the resolver the node even when it is empty.
netaddrinfo_passive(w, na, listen, env) ==
    LET query == [node |-> <<na.address>>,
                  service |-> na.service,
                  ai_family |-> na.family, ai_socktype |-> na.socktype,
                  passive |-> TRUE]
        families == [i \in 1..Len(env.cands) |-> env.cands[i].family]
    IN  [w |-> Logged(w, "getaddrinfo", -1, [query |-> query, result |-> families],
                      env.cands # <<>>),
         result |-> [i \in 1..Len(env.cands) |->
                        [ai_family |-> env.cands[i].family,
                         ai_socktype |-> na.socktype,
                         ai_addr |-> Sockaddr(env.cands[i].family,
                                              ResolvedNode(na, env.cands[i].family, TRUE),
                                              na.service),
                         outcome |-> env.cands[i].outcome]]]

\* netaddrinfo (lines 596-614): the query made and the candidate list
\* (<<>> for NULL).  getaddrinfo reports failure in its result, not in errno.
\* The log keeps the query and the families of the candidates returned.
netaddrinfo(w, na, listen, env) ==
    LET query == [node |-> IF na.addrlen # 0 THEN <<na.address>> ELSE <<>>,
                  service |-> na.service,
                  ai_family |-> na.family, ai_socktype |-> na.socktype,
                  passive |-> listen]
        families == [i \in 1..Len(env.cands) |-> env.cands[i].family]
    IN  [w |-> Logged(w, "getaddrinfo", -1, [query |-> query, result |-> families],
                      env.cands # <<>>),
         result |-> [i \in 1..Len(env.cands) |->
                        [ai_family |-> env.cands[i].family,
                         ai_socktype |-> na.socktype,
                         ai_addr |-> Sockaddr(env.cands[i].family,
                                              ResolvedNode(na, env.cands[i].family, listen),
                                              na.service),
                         outcome |-> env.cands[i].outcome]]]

\* The socket flags with the polarity of the two bits as written in the
\* flags argument, not inverted.
sockflagsDirect(fl) ==
    (IF (fl \cap NDexeckeep) # {} THEN SOCK_CLOEXEC ELSE {})
        \cup (IF (fl \cap NDblocking) # {} THEN SOCK_NONBLOCK ELSE {})

\* inetsocket, lines 620-624.
sockflags(fl) ==
    (IF (fl \cap NDexeckeep) = {} THEN SOCK_CLOEXEC ELSE {})
        \cup (IF (fl \cap NDblocking) = {} THEN SOCK_NONBLOCK ELSE {})

\* The loop going on after a candidate has succeeded, keeping the last
\* descriptor that succeeded.
inetsocketLoopAll(w, ra, sflags, op) ==
    LET tried[i \in 0..Len(ra)] ==
            IF i = 0 THEN [w |-> w, rv |-> -1]
            ELSE LET p  == tried[i - 1]
                     ai == ra[i]
                     s  == sys_socket(p.w, ai.ai_family, ai.ai_socktype, sflags,
                                      ai.outcome # "sockfail")
                     o  == sys_op(op, s.w, s.rv, ai.ai_addr, ai.outcome = "ok")
                 IN  IF s.rv = -1 THEN [w |-> s.w, rv |-> p.rv]
                     ELSE IF o.rv # -1 THEN [w |-> o.w, rv |-> s.rv]
                     ELSE [w |-> sys_close(o.w, s.rv, TRUE).w, rv |-> p.rv]
    IN  tried[Len(ra)]

\* inetsocket, the loop over the candidates (lines 632-644).  tried[i] is
\* the state after i candidates: rv is -1 until a candidate has succeeded,
\* which ends the loop.
inetsocketLoop(w, ra, sflags, op) ==
    LET tried[i \in 0..Len(ra)] ==
            IF i = 0 THEN [w |-> w, rv |-> -1]
            ELSE LET p  == tried[i - 1]
                     ai == ra[i]
                     s  == sys_socket(p.w, ai.ai_family, ai.ai_socktype, sflags,
                                      ai.outcome # "sockfail")
                     o  == sys_op(op, s.w, s.rv, ai.ai_addr, ai.outcome = "ok")
                 IN  IF p.rv # -1 THEN p
                     ELSE IF s.rv = -1 THEN [w |-> s.w, rv |-> -1]
                     ELSE IF o.rv # -1 THEN [w |-> o.w, rv |-> s.rv]
                     ELSE [w |-> sys_close(o.w, s.rv, TRUE).w, rv |-> -1]
    IN  tried[Len(ra)]

\* inetsocket (lines 616-648)
inetsocket(w, na, fl, op, env) ==
    LET r == netaddrinfo(w, na, op = "bind", env)
    IN  IF r.result = <<>> THEN [w |-> r.w, rv |-> -1]
        ELSE inetsocketLoop(r.w, r.result, sockflags(fl), op)

\* The flags handed on unmasked, whatever the family.
familyflagsUnmasked(na, fl) == fl

\* netdial and netannounce mask the Unix-only option flags for the other
\* families (lines 660-661 and 685-686).
familyflags(na, fl) ==
    IF na.family = AF_UNIX THEN fl ELSE fl \cap (Bits \ NDunixoptmask)

\* The socket of netdial and netannounce, from unixsocket or inetsocket
\* (lines 657-663 and 682-688).
familysocket(w, na, fl, op, env) ==
    IF na.family = AF_UNIX
    THEN unixsocket(w, na, fl, op, env)
    ELSE inetsocket(w, na, familyflags(na, fl), op, env)

\* netdial once it has its socket s (lines 665-670).
netdial_socket(s, fl, env) ==
    LET a == applyflags(s.w, s.rv, fl, env.optfail)
    IN  IF s.rv >= 0 /\ ~a.rv
        THEN [w |-> sys_close(a.w, s.rv, TRUE).w, rv |-> -1]
        ELSE IF s.rv >= 0 THEN [w |-> a.w, rv |-> s.rv]
        ELSE [w |-> s.w, rv |-> s.rv]

\* netdial asking the resolver before it looks at the result of the parse.
netdial_resolvefirst(w, na, fl, env) ==
    LET r == netaddrinfo(w, na, FALSE, env)
    IN  IF ~na.ok THEN [w |-> r.w, rv |-> -1]
        ELSE netdial_socket(familysocket(w, na, fl, "connect", env),
                            familyflags(na, fl), env)

\* netdial (lines 650-671); na is what netaddrparse made of the address.
netdial(w, na, fl, env) ==
    IF ~na.ok THEN [w |-> w, rv |-> -1]
    ELSE netdial_socket(familysocket(w, na, fl, "connect", env),
                        familyflags(na, fl), env)

\* netannounce without the close(fd) of lines 694-697.
netannounce_socket_noclose(s, fl, backlog, env) ==
    LET a == applyflags(s.w, s.rv, fl, env.optfail)
        l == sys_listen(a.w, s.rv, IF backlog > 0 THEN backlog ELSE 5, env.listen)
    IN  IF s.rv < 0 THEN [w |-> s.w, rv |-> -1]
        ELSE IF ~a.rv THEN [w |-> a.w, rv |-> -1]
        ELSE IF l.rv < 0 THEN [w |-> l.w, rv |-> -1]
        ELSE [w |-> l.w, rv |-> s.rv]

\* netannounce calling listen before it applies the options.
netannounce_socket_listenfirst(s, fl, backlog, env) ==
    LET l == sys_listen(s.w, s.rv, IF backlog > 0 THEN backlog ELSE 5, env.listen)
        a == applyflags(l.w, s.rv, fl, env.optfail)
    IN  IF s.rv < 0 THEN [w |-> s.w, rv |-> -1]
        ELSE IF l.rv < 0 THEN [w |-> sys_close(l.w, s.rv, TRUE).w, rv |-> -1]
        ELSE IF ~a.rv THEN [w |-> sys_close(a.w, s.rv, TRUE).w, rv |-> -1]
        ELSE [w |-> a.w, rv |-> s.rv]

\* netannounce once it has its socket s (lines 690-698).
netannounce_socket(s, fl, backlog, env) ==
    LET a == applyflags(s.w, s.rv, fl, env.optfail)
        l == sys_listen(a.w, s.rv, IF backlog > 0 THEN backlog ELSE 5, env.listen)
    IN  IF s.rv < 0 THEN [w |-> s.w, rv |-> -1]
        ELSE IF ~a.rv THEN [w |-> sys_close(a.w, s.rv, TRUE).w, rv |-> -1]
        ELSE IF l.rv < 0 THEN [w |-> sys_close(l.w, s.rv, TRUE).w, rv |-> -1]
        ELSE [w |-> l.w, rv |-> s.rv]

\* netannounce (lines 673-699); na is what netaddrparse made of the address.
netannounce(w, na, fl, backlog, env) ==
    IF ~na.ok THEN [w |-> [w EXCEPT !.errno = "EINVAL"], rv |-> -1]
    ELSE netannounce_socket(familysocket(w, na, fl, "bind", env),
                            familyflags(na, fl), backlog, env)

\* <netdb.h> (Linux values): NI_NUMERICHOST = 1, NI_NUMERICSERV = 2,
\* NI_DGRAM = 16.
NI_NUMERICHOST == {0}
NI_NUMERICSERV == {1}
NI_DGRAM       == {4}

\* mknetaddr, lines 728-730: the flags of the getnameinfo call, as C groups
\* the expression: c ? NI_DGRAM : (0 | NI_NUMERICHOST | NI_NUMERICSERV).
nameinfoflags(socktype) ==
    IF socktype = SOCK_DGRAM THEN NI_DGRAM
    ELSE ({} \cup NI_NUMERICHOST) \cup NI_NUMERICSERV

\* What a reverse lookup makes of an address and of a port.
HostName == <<"h","o","s","t">>
ServName == <<"s","v","c">>

\* getnameinfo(sa, salen, host, sizeof host, serv, sizeof serv, flags)
sys_getnameinfo(w, sa, niflags, ok) ==
    [w |-> Logged(w, "getnameinfo", -1, niflags, ok),
     rv |-> IF ok THEN 0 ELSE -1,
     host |-> IF (niflags \cap NI_NUMERICHOST) # {} THEN sa.node ELSE HostName,
     serv |-> IF (niflags \cap NI_NUMERICSERV) # {} THEN sa.port ELSE ServName]

\* The first n bytes of a zero-filled sun_path field holding path.
PathBytes(path, n) == [i \in 1..n |-> CharAt(path, i)]

\* The result of mknetaddr when it returns NULL.
NullAddr == <<"(null)">>

\* mknetaddr (lines 701-743)
mknetaddr(w, fd, sa, salen, env) ==
    LET t == sys_getsockopt_type(w, fd, env.sotype)
        socktype == IF t.rv # 0 THEN SOCK_STREAM ELSE t.val
        netname == getnetname(sa.family, socktype)
        b == netname \o <<":">>
        n == sys_getnameinfo(t.w, sa, nameinfoflags(socktype), env.nameinfo)
    IN  IF netname = NoName THEN [w |-> t.w, str |-> NullAddr]
        ELSE IF sa.family = AF_UNIX
        THEN [w |-> t.w, str |-> b \o PathBytes(sa.node, salen)]
        ELSE IF sa.family \in {AF_INET, AF_INET6}
        THEN (IF n.rv # 0 THEN [w |-> n.w, str |-> NullAddr]
              ELSE [w |-> n.w, str |-> b \o n.host \o <<":">> \o n.serv])
        ELSE [w |-> t.w, str |-> b]

\* accept4 of the platform (HAVE_ACCEPT4, line 377).
accept4_native(w, fd, typeflags, env) ==
    sys_accept(w, "accept4", fd, typeflags, env.peer, env.accept)

\* accept4 as emulated without it (lines 379-405).
accept4_fallback(w, fd, typeflags, env) ==
    LET a  == sys_accept(w, "accept", fd, {}, env.peer, env.accept)
        g  == sys_fcntl_getfd(a.w, a.rv, env.getfd)
        of == g.val
        nf == IF (typeflags \cap SOCK_NONBLOCK) # {}
              THEN of \cup O_NONBLOCK ELSE of \ O_NONBLOCK
        st == sys_fcntl_setfd(g.w, a.rv, nf, env.setfd)
        closed(x) == [w |-> sys_close(x, a.rv, TRUE).w, rv |-> -1,
                      sa |-> a.sa, salen |-> a.salen]
    IN  IF a.rv < 0 THEN a
        ELSE IF g.rv = -1 THEN closed(g.w)
        ELSE IF nf # of
        THEN (IF st.rv = -1 THEN closed(st.w) ELSE [a EXCEPT !.w = st.w])
        ELSE [a EXCEPT !.w = g.w]

\* netaccept, lines 753-754: the flags argument of accept4, as C groups the
\* expression: a ? 0 : ((SOCK_NONBLOCK | (flags & NDexeckeep)) ? 0 : SOCK_CLOEXEC).
acceptflags(fl) ==
    IF (fl \cap NDblocking) # {} THEN {}
    ELSE IF (SOCK_NONBLOCK \cup (fl \cap NDexeckeep)) # {} THEN {}
    ELSE SOCK_CLOEXEC

\* netaccept failing, and closing the new descriptor, when the peer address
\* cannot be formatted.
netaccept_strict(w, accept4, fd, fl, wantaddr, env) ==
    LET a == IF accept4 THEN accept4_native(w, fd, acceptflags(fl), env)
             ELSE accept4_fallback(w, fd, acceptflags(fl), env)
        m == mknetaddr(a.w, a.rv, a.sa, a.salen, env)
    IN  IF a.rv < 0 THEN [w |-> a.w, rv |-> -1, remoteaddr |-> <<>>]
        ELSE IF wantaddr /\ m.str = NullAddr
        THEN [w |-> sys_close(m.w, a.rv, TRUE).w, rv |-> -1, remoteaddr |-> <<>>]
        ELSE IF wantaddr THEN [w |-> m.w, rv |-> a.rv, remoteaddr |-> m.str]
        ELSE [w |-> a.w, rv |-> a.rv, remoteaddr |-> <<>>]

\* netaccept (lines 745-762); wantaddr: remoteaddr is not NULL.
netaccept(w, accept4, fd, fl, wantaddr, env) ==
    LET a == IF accept4 THEN accept4_native(w, fd, acceptflags(fl), env)
             ELSE accept4_fallback(w, fd, acceptflags(fl), env)
        m == mknetaddr(a.w, a.rv, a.sa, a.salen, env)
    IN  IF a.rv < 0 THEN [w |-> a.w, rv |-> -1, remoteaddr |-> <<>>]
        ELSE IF wantaddr THEN [w |-> m.w, rv |-> a.rv, remoteaddr |-> m.str]
        ELSE [w |-> a.w, rv |-> a.rv, remoteaddr |-> <<>>]

\* nethangup, lines 794-799: the path handed to unlink, strncpy'ed out of
\* the captured sun_path up to its terminator.
hangupnode(addr, len) ==
    LET bytes == PathBytes(addr.node, len)
        end   == strchr(bytes, 1, NUL)
    IN  IF end = 0 THEN bytes ELSE SubSeq(bytes, 1, end - 1)

\* The NDclose case without the unlink of lines 794-799.
nethangupclose_nounlink(w, fd, env) ==
    LET q  == sys_getsockopt_acceptconn(w, fd, env.acceptconn)
        n  == IF q.val THEN sys_getsockname(q.w, fd, env.getsockname)
              ELSE [w |-> q.w, rv |-> 0, addr |-> NoAddr, len |-> 0]
        c  == sys_close(n.w, fd, env.close)
    IN  IF q.rv # 0 THEN [w |-> q.w, rv |-> -1]
        ELSE IF n.rv # 0 THEN [w |-> n.w, rv |-> -1]
        ELSE IF c.rv # 0 THEN [w |-> c.w, rv |-> -1]
        ELSE [w |-> c.w, rv |-> 0]

\* The NDclose case removing the path before it closes the descriptor.
nethangupclose_unlinkfirst(w, fd, env) ==
    LET q  == sys_getsockopt_acceptconn(w, fd, env.acceptconn)
        listen == q.val
        n  == IF listen THEN sys_getsockname(q.w, fd, env.getsockname)
              ELSE [w |-> q.w, rv |-> 0, addr |-> NoAddr, len |-> 0]
        u  == IF listen /\ n.addr.family = AF_UNIX
              THEN sys_unlink(n.w, hangupnode(n.addr, n.len), env.unlink)
              ELSE [w |-> n.w, rv |-> 0]
        c  == sys_close(u.w, fd, env.close)
    IN  IF q.rv # 0 THEN [w |-> q.w, rv |-> -1]
        ELSE IF n.rv # 0 THEN [w |-> n.w, rv |-> -1]
        ELSE IF u.rv # 0 THEN [w |-> u.w, rv |-> -1]
        ELSE [w |-> c.w, rv |-> c.rv]

\* The NDclose case asking for the name of any socket, listening or not, and
\* removing the path of every Unix-domain socket it closes.
nethangupclose_anyunix(w, fd, env) ==
    LET q  == sys_getsockopt_acceptconn(w, fd, env.acceptconn)
        n  == sys_getsockname(q.w, fd, env.getsockname)
        c  == sys_close(n.w, fd, env.close)
        u  == sys_unlink(c.w, hangupnode(n.addr, n.len), env.unlink)
    IN  IF q.rv # 0 THEN [w |-> q.w, rv |-> -1]
        ELSE IF n.rv # 0 THEN [w |-> n.w, rv |-> -1]
        ELSE IF c.rv # 0 THEN [w |-> c.w, rv |-> -1]
        ELSE IF n.addr.family = AF_UNIX THEN [w |-> u.w, rv |-> u.rv]
        ELSE [w |-> c.w, rv |-> 0]

\* nethangup, the NDclose case (lines 778-801)
nethangupclose(w, fd, env) ==
    LET q  == sys_getsockopt_acceptconn(w, fd, env.acceptconn)
        listen == q.val
        n  == IF listen THEN sys_getsockname(q.w, fd, env.getsockname)
              ELSE [w |-> q.w, rv |-> 0, addr |-> NoAddr, len |-> 0]
        c  == sys_close(n.w, fd, env.close)
        u  == sys_unlink(c.w, hangupnode(n.addr, n.len), env.unlink)
    IN  IF q.rv # 0 THEN [w |-> q.w, rv |-> -1]
        ELSE IF n.rv # 0 THEN [w |-> n.w, rv |-> -1]
        ELSE IF c.rv # 0 THEN [w |-> c.w, rv |-> -1]
        ELSE IF listen /\ n.addr.family = AF_UNIX THEN [w |-> u.w, rv |-> u.rv]
        ELSE [w |-> c.w, rv |-> 0]

\* nethangup doing the full close whatever the mode asked for.
nethangup_alwaysclose(w, fd, how, env) == nethangupclose(w, fd, env)

\* nethangup (lines 764-804)
nethangup(w, fd, how, env) ==
    LET r(x) == [w |-> x.w, rv |-> x.rv]
    IN  IF (how \cap NDrdwr) = NDread THEN r(sys_shutdown(w, fd, "SHUT_RD", env.shutdown))
        ELSE IF (how \cap NDrdwr) = NDwrite THEN r(sys_shutdown(w, fd, "SHUT_WR", env.shutdown))
        ELSE IF (how \cap NDrdwr) = NDrdwr THEN r(sys_shutdown(w, fd, "SHUT_RDWR", env.shutdown))
        ELSE nethangupclose(w, fd, env)

---------------------------------------------------------------------------
(* What the platform may do during a call.                                 *)

Outcomes == {"sockfail", "opfail", "ok"}

\* The families the resolver may return for a hint.
CandFamilies(family) ==
    IF family = AF_UNSPEC THEN {AF_INET, AF_INET6} ELSE {family}

\* Candidate lists of the resolver, <<>> when resolution fails.  With both
\* families allowed the list alternates between them, starting with either.
\* What would happen to a candidate after the first that succeeds is left at
\* "ok", as it is never tried.
CandLists(family) ==
    { c \in UNION { [1..n -> [family : CandFamilies(family), outcome : Outcomes]]
                        : n \in 0..MaxCand } :
        /\ \A i \in 1..Len(c) : \A j \in 1..(i - 1) :
                c[j].outcome = "ok" => c[i].outcome = "ok"
        /\ family = AF_UNSPEC =>
                \A i \in 2..Len(c) : c[i].family # c[i - 1].family }

RequestedOpts(fl) ==
    { optflags[i].sockopt :
        i \in { k \in 1..Len(optflags) :
                    optflags[k].sockopt # SO_UNSUPPORTED /\ (fl \cap optflags[k].ndflag) # {} } }

FactoryEnv(first, cands, optfail, listen) ==
    [first |-> first, cands |-> cands, optfail |-> optfail, listen |-> listen]

\* After the socket exists: which option setsockopt refuses (none, or one of
\* those requested), and whether listen succeeds.
LateEnvs(created, fl, op) ==
    IF ~created THEN {<<"none", TRUE>>}
    ELSE {<<"none", TRUE>>}
            \cup { <<o, TRUE>> : o \in RequestedOpts(fl) }
            \cup (IF op = "bind" THEN {<<"none", FALSE>>} ELSE {})

FactoryEnvs(na, fl, op) ==
    IF ~na.ok THEN {FactoryEnv("ok", <<>>, "none", TRUE)}
    ELSE IF na.family = AF_UNIX
    THEN UNION { { FactoryEnv(f, <<>>, l[1], l[2]) : l \in LateEnvs(f = "ok", fl, op) }
                    : f \in Outcomes }
    ELSE UNION { { FactoryEnv("ok", c, l[1], l[2])
                        : l \in LateEnvs(\E i \in 1..Len(c) : c[i].outcome = "ok", fl, op) }
                    : c \in CandLists(na.family) }

\* The peer of a pending connection: an unnamed Unix-domain client, or an
\* IP client.
Peers(sock) ==
    IF sock.family = AF_UNIX THEN {NoAddr}
    ELSE IF sock.family = AF_INET
    THEN {Sockaddr(AF_INET, <<"1",".","2",".","3",".","4">>, <<"9">>)}
    ELSE {Sockaddr(AF_INET6, <<":",":","2">>, <<"9">>)}

\* At most one step of netaccept fails.
AcceptEnvs(sock, accept4, wantaddr) ==
    { e \in [accept : BOOLEAN, getfd : BOOLEAN, setfd : BOOLEAN,
             sotype : BOOLEAN, nameinfo : BOOLEAN, peer : Peers(sock)] :
        /\ Cardinality({ k \in {"accept", "getfd", "setfd", "sotype", "nameinfo"} : ~e[k] }) <= 1
        /\ accept4 => e.getfd /\ e.setfd
        /\ ~wantaddr => e.sotype /\ e.nameinfo }

\* At most one step of nethangup fails.
HangupEnvs(how) ==
    { e \in [acceptconn : BOOLEAN, getsockname : BOOLEAN, close : BOOLEAN,
             unlink : BOOLEAN, shutdown : BOOLEAN] :
        /\ Cardinality({ k \in {"acceptconn", "getsockname", "close", "unlink", "shutdown"} : ~e[k] }) <= 1
        /\ (how \cap NDrdwr) = NDclose => e.shutdown
        /\ (how \cap NDrdwr) # NDclose => e.acceptconn /\ e.getsockname /\ e.close /\ e.unlink }

---------------------------------------------------------------------------
(* The program: an address and socket flags fixed at start (as the test    *)
(* programs take them), then any sequence of library calls.                *)

WorldAddresses ==
    { <<"u","n","i","x",":","s">>,
      <<"u","n","i","x",":">>,
      <<"u","n","i","x",":">> \o Str1("a", SUN_PATH_SIZE),
      <<"t","c","p",":",":","7">>,
      <<"t","c","p","6",":","[",":",":","1","]",":","7">>,
      <<"u","d","p","4",":","h",":","7">>,
      <<"f","o","o",":","h",":","7">> }

ShapeFlags == { NDdefault, NDblocking, NDexeckeep, NDblocking \cup NDexeckeep }

OptionFlags == { NDdefault,
                 NDpasscred \cup NDpassec \cup NDkeepalive,
                 NDbroadcast \cup NDreuseaddr }

\* The flags a program passes: a shape with the default options, or options
\* with the default shape.
FlagChoices == ShapeFlags \cup OptionFlags

Backlogs == {0, 3}

HangupModes == { NDclose, NDread, NDwrite, NDrdwr }

NoTarget == NewSocket(AF_UNSPEC, SOCK_ZERO, {})

\* slot: the caller of netaccept passed a remoteaddr that is not NULL.
Call(op, fd, arg, rv, log, remoteaddr, target) ==
    [op |-> op, fd |-> fd, arg |-> arg, rv |-> rv, log |-> log,
     remoteaddr |-> remoteaddr, slot |-> FALSE, target |-> target]

Init ==
    /\ address \in WorldAddresses
    /\ flags \in FlagChoices
    /\ parsed = NoResult
    /\ have_accept4 \in BOOLEAN
    /\ InitWorld

\* The sockets the program holds that are connections.
Connections == { fd \in DOMAIN fds : ~fds[fd].listening }

Netdial ==
    /\ ret = NoCall
    /\ Cardinality(Connections) < MaxConn
    /\ \E na \in { netaddrparse(address) } :
        \E env \in FactoryEnvs(na, flags, "connect") :
        \E r \in { netdial(World(fds, fs, errno), na, flags, env) } :
            /\ fds' = r.w.fds
            /\ fs' = r.w.fs
            /\ errno' = r.w.errno
            /\ parsed' = na
            /\ ret' = Call("netdial", -1, flags, r.rv, r.w.log, <<>>, NoTarget)
            /\ UNCHANGED <<address, flags, have_accept4, heap, conn, rd, wr>>

Netannounce ==
    /\ ret = NoCall
    /\ \A fd \in DOMAIN fds : ~fds[fd].listening
    /\ \E na \in { netaddrparse(address) } :
        \E backlog \in Backlogs :
        \E env \in FactoryEnvs(na, flags, "bind") :
        \E r \in { netannounce(World(fds, fs, errno), na, flags, backlog, env) } :
            /\ fds' = r.w.fds
            /\ fs' = r.w.fs
            /\ errno' = r.w.errno
            /\ parsed' = na
            /\ ret' = Call("netannounce", -1, flags, r.rv, r.w.log, <<>>, NoTarget)
            /\ UNCHANGED <<address, flags, have_accept4, heap, conn, rd, wr>>

\* netaccept asserts fd >= 0; the caller passes a listening socket.
Netaccept ==
    /\ ret = NoCall
    /\ Cardinality(Connections) < MaxConn
    /\ \E fd \in DOMAIN fds :
        \E fl \in ShapeFlags :
        \E wantaddr \in BOOLEAN :
        \E env \in AcceptEnvs(fds[fd], have_accept4, wantaddr) :
        \E r \in { netaccept(World(fds, fs, errno), have_accept4, fd, fl, wantaddr, env) } :
            /\ fds[fd].listening
            /\ fds' = r.w.fds
            /\ fs' = r.w.fs
            /\ errno' = r.w.errno
            /\ ret' = [Call("netaccept", fd, fl, r.rv, r.w.log, r.remoteaddr, fds[fd])
                            EXCEPT !.slot = wantaddr]
            /\ UNCHANGED <<address, flags, parsed, have_accept4, heap, conn, rd, wr>>

Nethangup ==
    /\ ret = NoCall
    /\ \E fd \in DOMAIN fds :
        \E how \in HangupModes :
        \E env \in HangupEnvs(how) :
        \E r \in { nethangup(World(fds, fs, errno), fd, how, env) } :
            /\ fds' = r.w.fds
            /\ fs' = r.w.fs
            /\ errno' = r.w.errno
            /\ ret' = Call("nethangup", fd, how, r.rv, r.w.log, <<>>, fds[fd])
            /\ UNCHANGED <<address, flags, parsed, have_accept4, heap, conn, rd, wr>>

\* The call has returned and the caller has its result; the library keeps
\* nothing of a call (its struct netaddr is a local of netdial and
\* netannounce).
Return ==
    /\ ret # NoCall
    /\ ret' = NoCall
    /\ parsed' = NoResult
    /\ UNCHANGED <<address, flags, fds, fs, errno, have_accept4, heap, conn, rd, wr>>

Next == Netdial \/ Netannounce \/ Netaccept \/ Nethangup \/ Return

Spec == Init /\ [][Next]_vars

---------------------------------------------------------------------------
(* Claims about the calls.  ret is the call that has just returned.        *)

FactoryReturned == ret.op \in {"netdial", "netannounce"}

\* The entries of the call's log that are socket() calls.
SocketCalls == { i \in 1..Len(ret.log) : ret.log[i].call = "socket" }

\* The descriptors socket() handed out during the call.
Created == { ret.log[i].fd : i \in { k \in SocketCalls : ret.log[k].ok } }

\* C6: when the address does not parse, netdial and netannounce both return
\* -1 with errno set to the one invalid-address code (EINVAL), whatever
\* errno held before the call.
C6_ParseFailureSetsErrno ==
    (FactoryReturned /\ ~parsed.ok) => (ret.rv = -1 /\ errno = "EINVAL")

\* C7: in netdial and netannounce every socket() call, on the Unix-domain path
\* and for each resolver candidate, asks for SOCK_NONBLOCK exactly when
\* NDblocking is absent from flags and for SOCK_CLOEXEC exactly when
\* NDexeckeep is absent, and the descriptor returned is non-blocking and
\* close-on-exec accordingly.
C7_FactoryDescriptorShape ==
    FactoryReturned =>
        LET nonblock == (ret.arg \cap NDblocking) = {}
            cloexec  == (ret.arg \cap NDexeckeep) = {}
        IN  /\ \A i \in SocketCalls :
                    /\ (SOCK_NONBLOCK \subseteq ret.log[i].arg[3]) <=> nonblock
                    /\ (SOCK_CLOEXEC \subseteq ret.log[i].arg[3]) <=> cloexec
            /\ ret.rv >= 0 =>
                    /\ fds[ret.rv].nonblock <=> nonblock
                    /\ fds[ret.rv].cloexec <=> cloexec

\* netannounce with NDdefault returned the socket of the second candidate,
\* non-blocking and close-on-exec.
C7_Witness ==
    /\ ret.op = "netannounce"
    /\ ret.arg = NDdefault
    /\ ret.rv >= 0
    /\ Cardinality(SocketCalls) >= 2
    /\ fds[ret.rv].nonblock
    /\ fds[ret.rv].cloexec

\* C8: the descriptor netaccept returns is non-blocking exactly when
\* NDblocking is absent from its flags argument and close-on-exec exactly
\* when NDexeckeep is absent.
C8_AcceptedDescriptorShape ==
    (ret.op = "netaccept" /\ ret.rv >= 0) =>
        /\ fds[ret.rv].nonblock <=> ((ret.arg \cap NDblocking) = {})
        /\ fds[ret.rv].cloexec <=> ((ret.arg \cap NDexeckeep) = {})

\* C9: a netdial or netannounce that returns -1 leaves the descriptor table
\* as it found it; one that succeeds adds exactly the descriptor it returns
\* and leaves the others as they were.
C9_NoDescriptorLeak ==
    [][ret'.op \in {"netdial", "netannounce"} =>
            /\ ret'.rv = -1 => fds' = fds
            /\ ret'.rv >= 0 =>
                    /\ ret'.rv \notin DOMAIN fds
                    /\ DOMAIN fds' = DOMAIN fds \cup {ret'.rv}
                    /\ \A fd \in DOMAIN fds : fds'[fd] = fds[fd]]_vars

\* netannounce failed at listen, after its socket was created and bound,
\* and none of the descriptors it created is open.
C9_Witness ==
    /\ ret.op = "netannounce"
    /\ ret.rv = -1
    /\ Created # {}
    /\ \E i \in 1..Len(ret.log) : ret.log[i].call = "listen" /\ ~ret.log[i].ok
    /\ Created \cap DOMAIN fds = {}

\* nethangup with NDclose was called on a listening Unix-domain socket bound
\* to a path.
HangupOfUnixListener ==
    /\ ret.op = "nethangup"
    /\ (ret.arg \cap NDrdwr) = NDclose
    /\ ret.target.listening
    /\ ret.target.name.family = AF_UNIX
    /\ ret.target.name.node # <<>>

\* C10: nethangup with NDclose on a listening Unix-domain socket bound to a
\* path makes its system calls in the order getsockopt(SO_ACCEPTCONN),
\* getsockname, close, unlink of that path, stopping at the first that
\* fails; when it returns 0 the descriptor is closed and the path is gone.
C10_HangupUnlinksAfterClose ==
    HangupOfUnixListener =>
        LET order == <<"getsockopt", "getsockname", "close", "unlink">>
        IN  /\ Len(ret.log) \in 1..4
            /\ \A i \in 1..Len(ret.log) : ret.log[i].call = order[i]
            /\ \A i \in 1..(Len(ret.log) - 1) : ret.log[i].ok
            /\ ret.log[1].arg = "SO_ACCEPTCONN"
            /\ Len(ret.log) = 4 => ret.log[4].arg = ret.target.name.node
            /\ ret.rv = 0 =>
                    /\ Len(ret.log) = 4
                    /\ ret.fd \notin DOMAIN fds
                    /\ ret.target.name.node \notin fs

\* The hangup of a listening Unix-domain socket returned 0 after all four
\* system calls.
C10_Witness ==
    /\ HangupOfUnixListener
    /\ ret.rv = 0
    /\ Len(ret.log) = 4
    /\ ret.log[4].call = "unlink"

\* C11: after nethangup with NDclose has returned, with 0 or with -1, the
\* descriptor it was given is no longer open.
C11_HangupCloseAlwaysCloses ==
    (ret.op = "nethangup" /\ (ret.arg \cap NDrdwr) = NDclose)
        => ret.fd \notin DOMAIN fds

\* The shutdown mode that goes with a half-close mode.
ShutdownHow(how) ==
    IF (how \cap NDrdwr) = NDread THEN "SHUT_RD"
    ELSE IF (how \cap NDrdwr) = NDwrite THEN "SHUT_WR"
    ELSE "SHUT_RDWR"

\* C12: nethangup with NDread, NDwrite or NDrdwr makes one system call, the
\* shutdown of the matching direction on the descriptor it was given, and
\* leaves the descriptor table and the filesystem as they were; its result
\* is that of the shutdown.
C12_HalfCloseOnlyShutsDown ==
    [][(ret'.op = "nethangup" /\ (ret'.arg \cap NDrdwr) # NDclose) =>
            /\ Len(ret'.log) = 1
            /\ ret'.log[1].call = "shutdown"
            /\ ret'.log[1].fd = ret'.fd
            /\ ret'.log[1].arg = ShutdownHow(ret'.arg)
            /\ ret'.rv = (IF ret'.log[1].ok THEN 0 ELSE -1)
            /\ fds' = fds
            /\ fs' = fs]_vars

\* The read side of a listening Unix-domain socket bound to a path was shut
\* down; the socket is open and its path exists.
C12_Witness ==
    /\ ret.op = "nethangup"
    /\ ret.arg = NDread
    /\ ret.rv = 0
    /\ ret.target.listening
    /\ ret.target.name.family = AF_UNIX
    /\ ret.fd \in DOMAIN fds
    /\ ret.target.name.node \in fs


\* A buffer read as a C string: its bytes up to the first NUL.
CString(b) ==
    IF \E i \in 1..Len(b) : b[i] = NUL
    THEN SubSeq(b, 1, (CHOOSE i \in 1..Len(b) : b[i] = NUL /\ \A j \in 1..(i - 1) : b[j] # NUL) - 1)
    ELSE b

\* The entries of the call's log made by the formatter.
FormatCalls ==
    { i \in 1..Len(ret.log) :
        \/ ret.log[i].call = "getnameinfo"
        \/ ret.log[i].call = "getsockopt" /\ ret.log[i].arg = "SO_TYPE" }

\* C14: when netaccept succeeds on a TCP listener with a remoteaddr slot and
\* the formatter's system calls succeed, the slot holds "tcp:" followed by
\* the peer's numeric address, ':' and the peer's numeric port.
C14_AcceptedPeerIsTcp ==
    ( /\ ret.op = "netaccept"
      /\ ret.rv >= 0
      /\ ret.slot
      /\ ret.target.socktype = SOCK_STREAM
      /\ ret.target.family \in {AF_INET, AF_INET6}
      /\ \A i \in FormatCalls : ret.log[i].ok )
        => CString(ret.remoteaddr) =
                <<"t","c","p",":">> \o fds[ret.rv].peer.node \o <<":">> \o fds[ret.rv].peer.port

\* C15: in netaccept the formatter runs only after the accept has succeeded
\* and only when there is a remoteaddr slot; when its name lookup fails the
\* new descriptor is still returned, open, and the slot is set to NULL;
\* without a slot the call makes none of the formatter's system calls.
C15_FormatFailureKeepsAccept ==
    ret.op = "netaccept" =>
        /\ FormatCalls # {} => (ret.slot /\ ret.rv >= 0)
        /\ (\E i \in FormatCalls : ret.log[i].call = "getnameinfo" /\ ~ret.log[i].ok) =>
                /\ ret.rv >= 0
                /\ ret.rv \in DOMAIN fds
                /\ ret.remoteaddr = NullAddr
        /\ ~ret.slot => (FormatCalls = {} /\ ret.remoteaddr = <<>>)
        /\ ret.rv >= 0 => ret.rv \in DOMAIN fds

\* The name lookup of the peer failed; the accepted descriptor was returned
\* with the slot set to NULL.
C15_Witness ==
    /\ ret.op = "netaccept"
    /\ ret.slot
    /\ \E i \in FormatCalls : ret.log[i].call = "getnameinfo" /\ ~ret.log[i].ok
    /\ ret.rv >= 0
    /\ ret.rv \in DOMAIN fds
    /\ ret.remoteaddr = NullAddr

\* The entries of the call's log that are setsockopt() calls.
SetsockoptCalls == { i \in 1..Len(ret.log) : ret.log[i].call = "setsockopt" }

\* C16: netdial and netannounce call setsockopt(SO_BROADCAST) only on an IP
\* datagram socket and setsockopt(SO_KEEPALIVE) only on a TCP socket; on
\* other sockets NDbroadcast and NDkeepalive set no option.
C16_BroadcastAndKeepaliveByKind ==
    (FactoryReturned /\ parsed.ok) =>
        \A i \in SetsockoptCalls :
            /\ ret.log[i].arg = "SO_BROADCAST" =>
                    (parsed.family # AF_UNIX /\ parsed.socktype = SOCK_DGRAM)
            /\ ret.log[i].arg = "SO_KEEPALIVE" =>
                    (parsed.family # AF_UNIX /\ parsed.socktype = SOCK_STREAM)

\* The socket options of the Unix-only flag bits.
UnixOnlyOpts ==
    { optflags[k].sockopt : k \in { j \in 1..Len(optflags) :
                                        optflags[j].ndflag \subseteq NDunixoptmask } }

IPPathReturned == FactoryReturned /\ parsed.ok /\ parsed.family # AF_UNIX

\* The families of the candidates the resolver returned to the call.
Resolved == ret.log[1].arg.result

\* The wildcard address of a family.
Wildcard(family) ==
    IF family = AF_INET THEN <<"0",".","0",".","0",".","0">> ELSE <<":",":">>

\* C19: when netannounce succeeds on an address of unversioned type with an
\* empty node, and the resolver returned a wildcard candidate of each
\* family, it has bound a socket to the IPv4 wildcard and a socket to the
\* IPv6 wildcard.
C19_AnnounceBindsBothFamilies ==
    ( /\ ret.op = "netannounce"
      /\ IPPathReturned
      /\ parsed.family = AF_UNSPEC
      /\ parsed.addrlen = 0
      /\ {AF_INET, AF_INET6} \subseteq Range(Resolved)
      /\ ret.rv >= 0 )
        => \A f \in {AF_INET, AF_INET6} :
                \E i \in 1..Len(ret.log) :
                    /\ ret.log[i].call = "bind"
                    /\ ret.log[i].ok
                    /\ ret.log[i].arg.family = f
                    /\ ret.log[i].arg.node = Wildcard(f)

\* The k-th socket() call of the call's log.
NthSocketCall(k) ==
    CHOOSE i \in SocketCalls : Cardinality({ j \in SocketCalls : j < i }) = k - 1

\* The role's operation: connect for netdial, bind for netannounce.
RoleOp == IF ret.op = "netdial" THEN "connect" ELSE "bind"

\* The entries of the call's log that are the role's operation.
RoleCalls == { i \in 1..Len(ret.log) : ret.log[i].call = RoleOp }

\* C20: on the IP path the k-th socket() call is for the k-th candidate of
\* the resolver's list; after a socket() that fails comes the next
\* candidate's; after one that succeeds comes the role's operation on the
\* new descriptor, and when that fails the descriptor is closed before the
\* next candidate's socket(); after an operation that succeeds no further
\* candidate is tried and the call returns that descriptor unless a later
\* step fails; when no operation succeeds every candidate has been tried
\* and the call returns -1.
C20_CandidatesInOrder ==
    IPPathReturned =>
        LET log == ret.log
            n   == Len(ret.log)
        IN  /\ log[1].call = "getaddrinfo"
            /\ Cardinality(SocketCalls) <= Len(Resolved)
            /\ \A k \in 1..Cardinality(SocketCalls) :
                    log[NthSocketCall(k)].arg[1] = Resolved[k]
            /\ Resolved # <<>> => 2 \in SocketCalls
            /\ \A i \in SocketCalls :
                    IF ~log[i].ok
                    THEN i = n \/ (i + 1) \in SocketCalls
                    ELSE /\ (i + 1) \in RoleCalls
                         /\ log[i + 1].fd = log[i].fd
                         /\ log[i + 1].arg.family = log[i].arg[1]
                         /\ IF ~log[i + 1].ok
                            THEN /\ i + 2 <= n
                                 /\ log[i + 2].call = "close"
                                 /\ log[i + 2].fd = log[i].fd
                                 /\ (i + 2 = n \/ (i + 3) \in SocketCalls)
                            ELSE /\ \A j \in SocketCalls : j <= i
                                 /\ ret.rv \in {log[i].fd, -1}
                                 /\ ret.rv = -1 =>
                                        \E j \in (i + 2)..n : ~log[j].ok
            /\ \A i \in RoleCalls : (i - 1) \in SocketCalls
            /\ (\A i \in RoleCalls : ~log[i].ok) =>
                    /\ ret.rv = -1
                    /\ Cardinality(SocketCalls) = Len(Resolved)

\* netdial returned the socket of the second candidate after the connect of
\* the first had failed and its socket had been closed.
C20_Witness ==
    /\ ret.op = "netdial"
    /\ IPPathReturned
    /\ Cardinality(SocketCalls) = 2
    /\ \E i \in RoleCalls : ~ret.log[i].ok /\ ret.log[i + 1].call = "close"
    /\ ret.rv >= 0
    /\ ret.rv = ret.log[NthSocketCall(2)].fd

\* The entries of the call's log that are listen() calls.
ListenCalls == { i \in 1..Len(ret.log) : ret.log[i].call = "listen" }

\* The entries of the call's log that are a system call on fd that succeeded.
Succeeded(call, fd) ==
    { i \in 1..Len(ret.log) :
        ret.log[i].call = call /\ ret.log[i].fd = fd /\ ret.log[i].ok }

\* C21: in netannounce, listen is called at most once and only on a socket
\* that socket() created and bind() bound, after a successful setsockopt for
\* every option the flags ask for (of those the build has and the family
\* takes); every setsockopt comes after the bind of its socket; the call
\* returns a descriptor only when its last step was a listen on it that
\* succeeded; and a setsockopt or listen that fails makes it return -1, a
\* failed setsockopt without any listen.
C21_AnnounceStepOrder ==
    (ret.op = "netannounce" /\ parsed.ok) =>
        LET log == ret.log
            n   == Len(ret.log)
            asked == RequestedOpts(familyflags(parsed, ret.arg))
        IN  /\ Cardinality(ListenCalls) <= 1
            /\ \A i \in ListenCalls :
                    /\ \E b \in Succeeded("bind", log[i].fd) :
                            /\ b < i
                            /\ \E s \in Succeeded("socket", log[i].fd) : s < b
                            /\ \A j \in (b + 1)..(i - 1) : log[j].call = "setsockopt"
                    /\ \A o \in asked :
                            \E j \in Succeeded("setsockopt", log[i].fd) :
                                j < i /\ log[j].arg = o
                    /\ IF log[i].ok THEN i = n
                       ELSE i + 1 = n /\ log[n].call = "close" /\ log[n].fd = log[i].fd
            /\ \A j \in SetsockoptCalls :
                    \E b \in Succeeded("bind", log[j].fd) : b < j
            /\ ret.rv >= 0 =>
                    /\ n \in ListenCalls
                    /\ log[n].ok
                    /\ log[n].fd = ret.rv
            /\ \A j \in SetsockoptCalls \cup ListenCalls :
                    ~log[j].ok => ret.rv = -1
            /\ \A j \in SetsockoptCalls :
                    ~log[j].ok => ListenCalls = {}

\* netannounce succeeded with two options asked for: both were set before
\* the listen.
C21_Witness ==
    /\ ret.op = "netannounce"
    /\ parsed.ok
    /\ ret.rv >= 0
    /\ Cardinality(RequestedOpts(familyflags(parsed, ret.arg))) >= 2
    /\ Cardinality(SetsockoptCalls) >= 2
    /\ \A j \in SetsockoptCalls : \A i \in ListenCalls : j < i

\* C22: when netaddrparse fails, netdial and netannounce return -1 and have
\* made no system call at all (no getaddrinfo, socket, connect, bind,
\* setsockopt or listen).
C22_ParseFailureBeforeAnyCall ==
    (FactoryReturned /\ ~parsed.ok) =>
        /\ ret.rv = -1
        /\ ret.log = <<>>

\* netdial returned from an address that does not parse.
C22_Witness ==
    /\ ret.op = "netdial"
    /\ ~parsed.ok
    /\ ret.rv = -1

\* The entries of the call's log that are a system call that failed.
FailedCalls(call) ==
    { i \in 1..Len(ret.log) : ret.log[i].call = call /\ ~ret.log[i].ok }

\* C27: in a full-close nethangup, when unlink fails the call returns -1, a
\* close of the descriptor that succeeded came before the unlink, and the
\* descriptor is closed when the call returns; when close fails the call
\* returns -1 and has not called unlink.
C27_HangupFailureOrder ==
    (ret.op = "nethangup" /\ (ret.arg \cap NDrdwr) = NDclose) =>
        /\ \A u \in FailedCalls("unlink") :
                /\ ret.rv = -1
                /\ \E c \in Succeeded("close", ret.fd) : c < u
                /\ ret.fd \notin DOMAIN fds
        /\ FailedCalls("close") # {} =>
                /\ ret.rv = -1
                /\ \A i \in 1..Len(ret.log) : ret.log[i].call # "unlink"

\* A full-close nethangup of a listening Unix-domain socket whose path
\* exists returned -1 because unlink failed: the descriptor is closed and
\* the path is still there.
C27_Witness ==
    /\ ret.op = "nethangup"
    /\ (ret.arg \cap NDrdwr) = NDclose
    /\ ret.target.listening
    /\ ret.target.name.family = AF_UNIX
    /\ ret.target.name.node \in fs
    /\ FailedCalls("unlink") # {}
    /\ ret.rv = -1
    /\ ret.fd \notin DOMAIN fds

\* The entries of the call's log that are getaddrinfo() calls.
ResolverCalls == { i \in 1..Len(ret.log) : ret.log[i].call = "getaddrinfo" }

\* C28: on the IP path netdial and netannounce query the resolver once,
\* before any other call, with the family, the socket type and the service
\* of the parsed address, with AI_PASSIVE exactly when the call is
\* netannounce, and with a NULL node when the parsed node is empty and the
\* parsed node's text otherwise.
C28_ResolverQuery ==
    IPPathReturned =>
        /\ ResolverCalls = {1}
        /\ LET query == ret.log[1].arg.query
           IN  /\ query.ai_family = parsed.family
               /\ query.ai_socktype = parsed.socktype
               /\ query.service = parsed.service
               /\ query.passive = (ret.op = "netannounce")
               /\ query.node = IF parsed.addrlen = 0 THEN <<>>
                               ELSE <<SubSeq(parsed.address, 1, parsed.addrlen)>>

\* The resolver was asked, by netdial, for the addresses of a node and
\* without AI_PASSIVE.
C28_Witness ==
    /\ ret.op = "netdial"
    /\ IPPathReturned
    /\ parsed.addrlen > 0
    /\ ret.log[1].call = "getaddrinfo"
    /\ ~ret.log[1].arg.query.passive
    /\ ret.log[1].arg.query.node = <<parsed.address>>

\* C31: a nethangup of a descriptor that is not a listening socket bound to
\* a Unix-domain address (a dialed socket, one returned by netaccept, any IP
\* socket) makes no unlink call and leaves every path of the filesystem in
\* place, whatever the mode.
C31_UnlinkOnlyForUnixListener ==
    [][ ( /\ ret'.op = "nethangup"
          /\ ~(ret'.target.listening /\ ret'.target.name.family = AF_UNIX) )
            => /\ fs' = fs
               /\ \A i \in 1..Len(ret'.log) : ret'.log[i].call # "unlink" ]_vars

\* A full close of a connection accepted on a Unix-domain listener has
\* returned: the connection carries the listener's path, which still exists.
C31_Witness ==
    /\ ret.op = "nethangup"
    /\ (ret.arg \cap NDrdwr) = NDclose
    /\ ~ret.target.listening
    /\ ret.target.name.family = AF_UNIX
    /\ ret.target.name.node \in fs
    /\ ret.rv = 0
    /\ ret.fd \notin DOMAIN fds

---------------------------------------------------------------------------
(* The formatter applied to the address of a socket bound as a canonical   *)
(* address string describes.                                               *)

\* Numeric hosts and services, and socket paths.
Hosts4 == { <<"1",".","2",".","3",".","4">>, <<"0",".","0",".","0",".","0">>,
            <<"1","0",".","0",".","0",".","1">> }
Hosts6 == { <<":",":","1">>, <<":",":">>, <<"f","e","8","0",":",":","1">> }
Services == { <<"7">>, <<"8","0">>, <<"4","4","3">> }
UnixPaths == { <<"s">>, <<"/","a">>, <<"/","a","/","b">> }

\* The canonical nodes of a family: a path, a dotted quad, a bracketed
\* IPv6 literal.
CanonicalNodes(family) ==
    IF family = AF_UNIX THEN UnixPaths
    ELSE (IF family \in {AF_UNSPEC, AF_INET} THEN Hosts4 ELSE {})
            \cup (IF family \in {AF_UNSPEC, AF_INET6}
                  THEN { <<"[">> \o h \o <<"]">> : h \in Hosts6 } ELSE {})

CanonicalAddresses ==
    UNION { { nettypes[i].name \o <<":">> \o n \o
                (IF nettypes[i].family = AF_UNIX THEN <<>> ELSE <<":">> \o s)
                    : n \in CanonicalNodes(nettypes[i].family), s \in Services }
                : i \in 1..Len(nettypes) }

\* The socket address a parsed address describes: under an unversioned type
\* the family is that of the literal.
BoundAs(na) ==
    LET node == SubSeq(na.address, 1, na.addrlen)
    IN  Sockaddr(IF na.family # AF_UNSPEC THEN na.family
                 ELSE IF \E i \in 1..Len(node) : node[i] = ":" THEN AF_INET6
                 ELSE AF_INET,
                 node, IF na.family = AF_UNIX THEN <<>> ELSE na.service)

\* A process holding, as descriptor 0, a socket bound as address describes.
InitFormat ==
    /\ address \in CanonicalAddresses
    /\ flags = {}
    /\ parsed = NoResult
    /\ have_accept4 = TRUE
    /\ errno = "0"
    /\ ret = NoCall
    /\ NoEcho
    /\ \E na \in { netaddrparse(address) } :
        /\ na.ok
        /\ fds = (0 :> [NewSocket(BoundAs(na).family, na.socktype, {})
                            EXCEPT !.name = BoundAs(na)])
        /\ fs = IF na.family = AF_UNIX THEN {BoundAs(na).node} ELSE {}

\* mknetaddr on the socket's address, as the kernel reports it.
Format ==
    /\ ret = NoCall
    /\ \E env \in [sotype : BOOLEAN, nameinfo : BOOLEAN] :
        \E m \in { mknetaddr(World(fds, fs, errno), 0, fds[0].name,
                             SockaddrLen(fds[0].name), env) } :
            /\ ret' = Call("mknetaddr", 0, {}, 0, m.w.log, m.str, fds[0])
            /\ parsed' = netaddrparse(address)
            /\ errno' = m.w.errno
            /\ UNCHANGED <<address, flags, fds, fs, have_accept4, heap, conn, rd, wr>>

NextFormat == Format

SpecFormat == InitFormat /\ [][NextFormat]_vars

\* C13: when every system call of the formatter succeeds, the text it makes
\* for a socket bound as the canonical address s describes is s, and it
\* parses back to the family, socket type, node and service s parsed to.
C13_FormatParseRoundTrip ==
    (ret.op = "mknetaddr" /\ \A i \in 1..Len(ret.log) : ret.log[i].ok)
        => /\ CString(ret.remoteaddr) = address
           /\ netaddrparse(CString(ret.remoteaddr)) = parsed


C25_UnixPathBytesBounded ==
    ( /\ ret.op = "mknetaddr"
      /\ ret.target.name.family = AF_UNIX
      /\ ret.remoteaddr # NullAddr ) =>
        \E t \in TableNames :
            ret.remoteaddr =
                t \o <<":">> \o PathBytes(ret.target.name.node,
                                          SockaddrLen(ret.target.name) - SUN_PATH_OFFSET)

---------------------------------------------------------------------------
(* The formatter applied as netaccept applies it: to a new descriptor and  *)
(* the sockaddr_storage, zeroed before the call, that accept was handed.   *)

\* The kinds of socket a descriptor may be.
PeerSocketKinds ==
    {AF_UNIX, AF_INET, AF_INET6} \X {SOCK_STREAM, SOCK_DGRAM, SOCK_SEQPACKET}

\* What the structure holds after accept: the peer's address, or nothing,
\* the zeroes of its initialiser (family AF_UNSPEC), where the platform
\* stored no address.
PeerAddrs(family) ==
    {NoAddr}
        \cup (IF family = AF_UNIX
              THEN { Sockaddr(AF_UNIX, p, <<>>) : p \in UnixPaths \cup {<<>>} }
              ELSE { Sockaddr(family, h, s) :
                        h \in (IF family = AF_INET THEN Hosts4 ELSE Hosts6),
                        s \in Services })

\* A process holding, as descriptor 0, a socket whose peer address accept
\* stored, or did not store, in sa.
InitPeer ==
    /\ address = <<>>
    /\ flags = {}
    /\ parsed = NoResult
    /\ have_accept4 = TRUE
    /\ errno = "0"
    /\ fs = {}
    /\ ret = NoCall
    /\ NoEcho
    /\ \E k \in PeerSocketKinds :
        \E sa \in PeerAddrs(k[1]) :
            fds = (0 :> [NewSocket(k[1], k[2], {}) EXCEPT !.peer = sa])

\* mknetaddr(nfd, &sa, salen), netaccept line 759.
FormatPeer ==
    /\ ret = NoCall
    /\ \E env \in [sotype : BOOLEAN, nameinfo : BOOLEAN] :
        \E m \in { mknetaddr(World(fds, fs, errno), 0, fds[0].peer,
                             SockaddrLen(fds[0].peer), env) } :
            /\ ret' = Call("mknetaddr", 0, {}, 0, m.w.log, m.str, fds[0])
            /\ errno' = m.w.errno
            /\ UNCHANGED <<address, flags, parsed, fds, fs, have_accept4, heap, conn, rd, wr>>

NextPeer == FormatPeer

SpecPeer == InitPeer /\ [][NextPeer]_vars

\* The type tokens of the Unix-domain, IPv4 and IPv6 entries of the Type
\* Table for a family and a socket type.
FamilyTokens(family, socktype) ==
    { nettypes[i].name :
        i \in { k \in 1..Len(nettypes) :
                    /\ nettypes[k].family \in {AF_UNIX, AF_INET, AF_INET6}
                    /\ nettypes[k].family = family
                    /\ nettypes[k].socktype = socktype } }

\* C24: the formatter returns NULL or a string that is a type token, ':' and
\* at least one more character before its terminator; when the socket type is known and
\* the address's family and the socket type are not those of a Unix-domain,
\* IPv4 or IPv6 entry of the Type Table (as for an address left unfilled,
\* of family AF_UNSPEC), it returns NULL.
C24_CompleteStringOrFailure ==
    (ret.op = "mknetaddr" /\ \A i \in 1..Len(ret.log) : ret.log[i].ok) =>
        LET sa     == ret.target.peer
            tokens == FamilyTokens(sa.family, ret.target.socktype)
        IN  IF tokens = {} THEN ret.remoteaddr = NullAddr
            ELSE \E t \in tokens :
                    /\ Len(CString(ret.remoteaddr)) > Len(t) + 1
                    /\ SubSeq(ret.remoteaddr, 1, Len(t) + 1) = t \o <<":">>

---------------------------------------------------------------------------
(* accept4, of the platform or emulated, called with any of its flags on a *)
(* listening socket.                                                       *)

\* The most connections accepted.
MaxAccepted == 2

\* The values of the flags argument of accept4.
Accept4Flags == { {}, SOCK_NONBLOCK, SOCK_CLOEXEC, SOCK_NONBLOCK \cup SOCK_CLOEXEC }

\* The listening sockets: of the connection-oriented kinds of the Type Table.
ListenerKinds ==
    { <<nettypes[i].family, nettypes[i].socktype>> :
        i \in { k \in 1..Len(nettypes) :
                    nettypes[k].family # AF_UNSPEC /\ nettypes[k].socktype # SOCK_DGRAM } }

\* A process holding a listening socket as descriptor 0, built with or
\* without HAVE_ACCEPT4; flags is the flags argument it gives accept4.
InitAccept4 ==
    /\ address = <<>>
    /\ flags \in Accept4Flags
    /\ parsed = NoResult
    /\ have_accept4 \in BOOLEAN
    /\ errno = "0"
    /\ fs = {}
    /\ ret = NoCall
    /\ NoEcho
    /\ \E k \in ListenerKinds :
        fds = (0 :> [NewSocket(k[1], k[2], {}) EXCEPT !.listening = TRUE])

\* accept4(fd, sa, salen, flags), lines 376-406.
Accept4 ==
    /\ Cardinality(Connections) < MaxAccepted
    /\ \E env \in AcceptEnvs(fds[0], have_accept4, FALSE) :
        \E r \in { IF have_accept4
                   THEN accept4_native(World(fds, fs, errno), 0, flags, env)
                   ELSE accept4_fallback(World(fds, fs, errno), 0, flags, env) } :
            /\ fds' = r.w.fds
            /\ errno' = r.w.errno
            /\ ret' = Call("accept4", 0, flags, r.rv, r.w.log, <<>>, fds[0])
            /\ UNCHANGED <<address, flags, parsed, fs, have_accept4, heap, conn, rd, wr>>

NextAccept4 == Accept4

SpecAccept4 == InitAccept4 /\ [][NextAccept4]_vars

\* What the platform's accept4 makes of the call that has just returned a
\* descriptor: the socket it gives the new descriptor.
NativeSocket ==
    LET before == [d \in DOMAIN fds \ {ret.rv} |-> fds[d]]
        env    == [accept |-> TRUE, peer |-> fds[ret.rv].peer]
        nat    == accept4_native(World(before, fs, errno), ret.fd, ret.arg, env)
    IN  nat.w.fds[nat.rv]

---------------------------------------------------------------------------
(* applyflags applied, any number of times, to one descriptor.             *)

\* Every value of the option bits of the flags argument.
AllOptionFlags ==
    { UNION S : S \in SUBSET { optflags[k].ndflag : k \in 1..Len(optflags) } }

\* The sockets the flags are applied to.
SocketKinds == { <<AF_UNIX, SOCK_STREAM>>, <<AF_INET, SOCK_STREAM>>, <<AF_INET6, SOCK_DGRAM>> }

\* A process holding a fresh socket as descriptor 0.
InitFlags ==
    /\ address = <<>>
    /\ flags \in AllOptionFlags
    /\ parsed = NoResult
    /\ have_accept4 = TRUE
    /\ fs = {}
    /\ errno = "0"
    /\ ret = NoCall
    /\ NoEcho
    /\ \E k \in SocketKinds : fds = (0 :> NewSocket(k[1], k[2], {}))

Applyflags ==
    \E failing \in {"none"} \cup RequestedOpts(flags) :
        \E r \in { applyflags(World(fds, fs, errno), 0, flags, failing) } :
            /\ fds' = r.w.fds
            /\ errno' = r.w.errno
            /\ ret' = Call("applyflags", 0, flags, IF r.rv THEN 0 ELSE -1,
                           r.w.log, <<>>, fds[0])
            /\ UNCHANGED <<address, flags, parsed, fs, have_accept4, heap, conn, rd, wr>>

NextFlags == Applyflags

SpecFlags == InitFlags /\ [][NextFlags]_vars

---------------------------------------------------------------------------
(* The echo server (test-echoserver.c): one connection, its queue of       *)
(* chunks, and the two handlers the event loop calls for it.  The peer     *)
(* sends the bytes 1, 2, 3, ...; a chunk's buf holds the bytes read into   *)
(* it.  A pointer is a heap address, 0 for NULL.                           *)

\* Chunksize (line 21: 1024), scaled down.
Chunksize == 2

\* The addresses malloc has to give.
MaxChunks == 3

\* The most bytes the peer sends.
MaxBytes == 4

\* mkchunk (lines 36-43), a being the address malloc returns.
mkchunk(h, a) ==
    [h EXCEPT ![a] = [len |-> 0, off |-> 0, next |-> 0, buf |-> <<>>, live |-> TRUE]]

\* freechunk (lines 45-51): the memory is freed; what it held stays there
\* until malloc hands it out again.
freechunk(h, c) == [h EXCEPT ![c].live = FALSE]

\* pushchunk (lines 53-70).  When q->tail points to freed memory, reading
\* and writing q->tail->next is undefined: ub = "intact" is the build in
\* which the freed memory still reads as it was and takes the write, "abort"
\* the one in which the process dies there.
pushchunk(h, q, c, ub) ==
    IF q.tail # 0
    THEN (IF ~h[q.tail].live /\ ub = "abort"
          THEN [heap |-> h, chunks |-> q, aborted |-> TRUE]
          ELSE IF h[q.tail].next # 0
          THEN [heap |-> h, chunks |-> q, aborted |-> TRUE]
          ELSE [heap |-> [h EXCEPT ![q.tail].next = c],
                chunks |-> [q EXCEPT !.tail = c], aborted |-> FALSE])
    ELSE [heap |-> h, chunks |-> [head |-> c, tail |-> c], aborted |-> FALSE]

\* popchunk (lines 72-81)
popchunk(h, q) == [chunks |-> [q EXCEPT !.head = h[q.head].next], c |-> q.head]

\* firstchunk (lines 83-89)
firstchunk(q) == q.head

\* haschunk (lines 91-96)
haschunk(q) == q.head # 0

\* freeconn (lines 105-118): every chunk of the queue is popped and freed.
freeconn(h, q) ==
    LET popped[i \in 0..MaxChunks] ==
            IF i = 0 THEN [heap |-> h, chunks |-> q]
            ELSE LET p == popped[i - 1]
                     o == popchunk(p.heap, p.chunks)
                 IN  IF ~haschunk(p.chunks) THEN p
                     ELSE [heap |-> freechunk(p.heap, o.c), chunks |-> o.chunks]
    IN  popped[MaxChunks]


\* What read() and write() return: rv, and with rv = -1 whether errno is
\* EAGAIN or EWOULDBLOCK.
IOResults ==
    { [rv |-> -1, again |-> TRUE], [rv |-> -1, again |-> FALSE] }
        \cup { [rv |-> n, again |-> FALSE] : n \in 0..Chunksize }

\* handle_conn_read (lines 120-176).  reads[i] is what the i-th read()
\* returns and mallocs[i] the address of the i-th mkchunk().  after[i] is the
\* state after i turns of the loop; status is "loop" while the loop goes on,
\* "break" when it was left for the scheduling of the write, "closed" when
\* the handler returned from inside it, "aborted" when the process died, and
\* "nomem" when malloc could not return the address.
handle_conn_read(h, cn, nrd, reads, mallocs, ub) ==
    LET after[i \in 0..Len(reads)] ==
            IF i = 0 THEN [heap |-> h, conn |-> cn, rd |-> nrd, status |-> "loop"]
            ELSE CHOOSE x \in {
                 LET c  == mallocs[i]
                     r  == reads[i].rv
                     h1 == mkchunk(p.heap, c)
                     closed == [heap |-> freeconn(freechunk(h1, c), p.conn.chunks).heap,
                                conn |-> [p.conn EXCEPT !.state = "closed"],
                                rd |-> p.rd, status |-> "closed"]
                     h2 == [h1 EXCEPT ![c].len = r, ![c].buf = [k \in 1..r |-> p.rd + k]]
                     pu == pushchunk(h2, p.conn.chunks, c, ub)
                 IN  IF p.status # "loop" THEN p
                     ELSE IF p.heap[c].live THEN [p EXCEPT !.status = "nomem"]
                     ELSE IF r = 0 THEN closed
                     ELSE IF r = -1
                     THEN (IF reads[i].again
                           THEN [p EXCEPT !.heap = h1, !.status = "break"]
                           ELSE closed)
                     ELSE IF pu.aborted
                     THEN [heap |-> h2, conn |-> [p.conn EXCEPT !.state = "aborted"],
                           rd |-> p.rd + r, status |-> "aborted"]
                     ELSE [heap |-> pu.heap, conn |-> [p.conn EXCEPT !.chunks = pu.chunks],
                           rd |-> p.rd + r,
                           status |-> IF r < Chunksize THEN "break" ELSE "loop"]
                 : p \in {after[i - 1]} } : TRUE
    IN  CHOOSE x \in { IF end.status = "break" /\ haschunk(end.conn.chunks)
                       THEN [end EXCEPT !.conn.wev = TRUE]
                       ELSE end : end \in {after[Len(reads)]} } : TRUE

\* handle_conn_write (lines 178-227).  writes[i] is what the i-th write()
\* returns at most (the kernel takes no more than the n bytes offered).
\* after[i] is the state after i turns of the loop; status is "loop" while
\* the loop goes on and "return" once the handler has returned.  In the
\* error path the chunk freed at line 204 is still the head of the queue
\* freeconn empties: it is freed twice, which is undefined, and ub says
\* whether the process survives it.
handle_conn_write(h, cn, sent, writes, ub) ==
    LET after[i \in 0..Len(writes)] ==
            IF i = 0
            THEN [heap |-> h, conn |-> [cn EXCEPT !.wev = FALSE], wr |-> sent,
                  status |-> "loop"]
            ELSE CHOOSE x \in {
                 LET q == p.conn.chunks
                     c == firstchunk(q)
                     n == p.heap[c].len - p.heap[c].off
                     r == IF writes[i].rv > n THEN n ELSE writes[i].rv
                     out == p.wr \o SubSeq(p.heap[c].buf, p.heap[c].off + 1,
                                           p.heap[c].off + r)
                     o == popchunk(p.heap, q)
                 IN  IF p.status # "loop" THEN p
                     ELSE IF ~haschunk(q) THEN [p EXCEPT !.status = "return"]
                     ELSE IF ~(n > 0)
                     THEN [p EXCEPT !.conn.state = "aborted", !.status = "return"]
                     ELSE IF r = -1
                     THEN (IF writes[i].again
                           THEN [p EXCEPT !.conn.wev = TRUE, !.status = "return"]
                           ELSE [p EXCEPT !.heap = freeconn(freechunk(p.heap, c), q).heap,
                                          !.conn.state = IF ub = "abort" THEN "aborted"
                                                         ELSE "closed",
                                          !.status = "return"])
                     ELSE IF r < n
                     THEN [p EXCEPT !.wr = out,
                                    !.conn.nbytes = @ + r,
                                    !.heap[c].off = @ + n,
                                    !.conn.wev = TRUE,
                                    !.status = "return"]
                     ELSE [p EXCEPT !.wr = out,
                                    !.conn.nbytes = @ + r,
                                    !.conn.chunks = o.chunks,
                                    !.heap = freechunk(p.heap, o.c)]
                 : p \in {after[i - 1]} } : TRUE
    IN  after[Len(writes)]


\* A process with one connection just accepted (handle_accept, lines
\* 246-257): descriptor 0, a zeroed struct conn, no chunk allocated.
InitEcho ==
    /\ address = <<>>
    /\ flags = {}
    /\ parsed = NoResult
    /\ have_accept4 = TRUE
    /\ errno = "0"
    /\ fs = {}
    /\ ret = NoCall
    /\ fds = (0 :> NewSocket(AF_INET, SOCK_STREAM, {}))
    /\ heap = [a \in 1..MaxChunks |->
                  [len |-> 0, off |-> 0, next |-> 0, buf |-> <<>>, live |-> FALSE]]
    /\ conn = [NoConn EXCEPT !.state = "open"]
    /\ rd = 0
    /\ wr = <<>>

\* The read event of the connection fires.  A read that fills a chunk keeps
\* the loop going, so every read but the last does; a handler that closes
\* the connection ends with nethangup(fd, NDclose).
HandleConnRead ==
    /\ conn.state = "open"
    /\ \E k \in 1..((MaxBytes \div Chunksize) + 1) :
        \E last \in IOResults :
        \E mallocs \in [1..k -> 1..MaxChunks] :
        \E ub \in {"intact", "abort"} :
        \E e \in { handle_conn_read(heap, conn, rd,
                                    [i \in 1..k |-> IF i < k
                                                    THEN [rv |-> Chunksize, again |-> FALSE]
                                                    ELSE last],
                                    mallocs, ub) } :
        \E env \in IF e.status = "closed" THEN HangupEnvs(NDclose)
                   ELSE { x \in HangupEnvs(NDclose) : \A f \in DOMAIN x : x[f] } :
        \E hu \in { nethangup(World(fds, fs, errno), 0, NDclose, env) } :
            /\ e.status \in {"break", "closed", "aborted"}
            /\ e.rd <= MaxBytes
            /\ heap' = e.heap
            /\ conn' = e.conn
            /\ rd' = e.rd
            /\ fds' = IF e.status = "closed" THEN hu.w.fds ELSE fds
            /\ errno' = IF e.status = "closed" THEN hu.w.errno
                        ELSE IF last.rv = -1 THEN "EAGAIN" ELSE errno
            /\ UNCHANGED <<address, flags, parsed, fs, ret, have_accept4, wr>>

\* The write event of the connection, scheduled by event_add, fires.  A
\* write that takes all of a chunk keeps the loop going, so every write but
\* the last does.
HandleConnWrite ==
    /\ conn.state = "open"
    /\ conn.wev
    /\ \E k \in 1..(MaxChunks + 1) :
        \E last \in { w \in IOResults : w.rv # 0 } :
        \E ub \in {"intact", "abort"} :
        \E e \in { handle_conn_write(heap, conn, wr,
                                     [i \in 1..k |-> IF i < k
                                                     THEN [rv |-> Chunksize, again |-> FALSE]
                                                     ELSE last],
                                     ub) } :
        \E env \in IF e.conn.state = "closed" THEN HangupEnvs(NDclose)
                   ELSE { x \in HangupEnvs(NDclose) : \A f \in DOMAIN x : x[f] } :
        \E hu \in { nethangup(World(fds, fs, errno), 0, NDclose, env) } :
            /\ e.status = "return"
            /\ heap' = e.heap
            /\ conn' = e.conn
            /\ wr' = e.wr
            /\ fds' = IF e.conn.state = "closed" THEN hu.w.fds ELSE fds
            /\ errno' = IF e.conn.state = "closed" THEN hu.w.errno ELSE errno
            /\ UNCHANGED <<address, flags, parsed, fs, ret, have_accept4, rd>>

NextEcho == HandleConnRead \/ HandleConnWrite

SpecEcho == InitEcho /\ [][NextEcho]_vars


---------------------------------------------------------------------------
(* Claims about the echo server.                                           *)

\* The last chunk reachable from chunk c of heap h along the next pointers.
LastChunk(h, c) ==
    LET walk[i \in 0..MaxChunks] ==
            IF i = 0 THEN c
            ELSE CHOOSE x \in { IF h[p].next = 0 THEN p ELSE h[p].next
                                    : p \in {walk[i - 1]} } : TRUE
    IN  walk[MaxChunks]

\* C32: while the connection lives, after every handler (each a sequence of
\* pushchunk and popchunk calls, popchunk only on a queue with a head) the
\* queue's head is NULL exactly when its tail is NULL, the tail is the last
\* chunk reachable from the head, and a handler that read bytes into an
\* empty queue leaves a queue with a head.
C32_ChunkqHeadAndTail ==
    [][ conn'.state = "open" =>
            /\ (conn'.chunks.head = 0) <=> (conn'.chunks.tail = 0)
            /\ conn'.chunks.head # 0 =>
                    conn'.chunks.tail = LastChunk(heap', conn'.chunks.head)
            /\ (conn.chunks.head = 0 /\ rd' > rd) => conn'.chunks.head # 0 ]_vars

\* C33: the bytes written to the peer are the first bytes read from it, in
\* order; and while a chunk is pending, the byte its next write starts with
\* (the one at offset off) is the byte after the last one written, so that a
\* partial write of r bytes has moved off by r.
C33_EchoResumesWhereItStopped ==
    /\ wr = [i \in 1..Len(wr) |-> i]
    /\ Len(wr) <= rd
    /\ (conn.state = "open" /\ haschunk(conn.chunks)) =>
            LET c == heap[firstchunk(conn.chunks)]
            IN  /\ c.off < c.len
                /\ c.buf[c.off + 1] = Len(wr) + 1

=============================================================================
